---- MODULE Spec2Model ----
(***************************************************************************)
(* A model of src/ultimate-wifi-fixer.py: the UltimateWiFiFixer object,   *)
(* its command runner, its record parsers, the signal-quality heuristic   *)
(* and the issue detector.                                                 *)
(*                                                                         *)
(* Python values are encoded as follows.                                   *)
(*   Optional[T]   None is <<>>, a present value v is <<v>>                *)
(*   list          a sequence                                              *)
(*   dataclass     a record with the dataclass's field names               *)
(*   dict (issue)  a record; the text interpolated into 'description' is   *)
(*                 kept as the fields the f-string interpolates            *)
(* An external command's text is represented by what the call site's      *)
(* regular expressions and string tests extract from it.                   *)
(***************************************************************************)
EXTENDS Integers, Sequences, FiniteSets, TLC

VARIABLES
    system,            \* self.system
    interfaces,        \* self.interfaces
    wifi_networks,     \* self.wifi_networks
    performance_data,  \* self.performance_data
    issues_detected,   \* self.issues_detected
    fixes_applied,     \* self.fixes_applied
    pc,                \* the last phase of main() that has completed
    observed,          \* what the probes and commands of the last diagnose_issues returned
    cmd,               \* the last run_command call: its arguments and what came back
    q,                 \* the last two _calculate_wifi_quality calls
    vendor_call,       \* the last _get_vendor_from_mac call
    fix_call,          \* the last _apply_fix_for_issue call and its commands
    reports,           \* the last two reports generate_report returned
    parse_call,        \* the last _parse_iwlist_scan call on one cell
    dns_call,          \* the lookups of the last performance test
    args,              \* main(): the parsed command line
    exit_status,       \* main(): None while running, else the process's status
    printed,           \* main(): which report was written, and where
    trace              \* main(): the phases started, in order

\* The calls of single methods that the object's state does not record.
callVars == <<vendor_call, fix_call, reports, parse_call, dns_call>>

mainVars == <<args, exit_status, printed, trace>>

vars == <<system, interfaces, wifi_networks, performance_data,
          issues_detected, fixes_applied, pc, observed, cmd, q, callVars,
          mainVars>>

None == <<>>

Some(v) == <<v>>

\* Python truthiness of an Optional[int]: None and 0 are falsy.
TruthyInt(o) == o # None /\ o[1] # 0

\* Python truthiness of an Optional[str]: None and "" are falsy.
TruthyStr(o) == o # None /\ o[1] # ""

-----------------------------------------------------------------------------
(* UltimateWiFiFixer.__init__                                              *)

Systems == {"Darwin", "Linux"}

is_mac == system = "Darwin"

is_linux == system = "Linux"

NoCall == [called |-> FALSE]

InitObject ==
    /\ system \in Systems
    /\ interfaces = <<>>
    /\ wifi_networks = <<>>
    /\ performance_data = None
    /\ issues_detected = <<>>
    /\ fixes_applied = <<>>
    /\ pc = "init"
    /\ observed = None

\* argparse's namespace when no flag is given.
NoArgs ==
    [scan |-> FALSE, speed_test |-> FALSE, fix |-> FALSE, optimize |-> FALSE,
     report |-> FALSE, output |-> None, verbose |-> FALSE]

InitCalls ==
    /\ cmd = NoCall
    /\ q = NoCall
    /\ vendor_call = NoCall
    /\ fix_call = NoCall
    /\ reports = <<>>
    /\ parse_call = NoCall
    /\ dns_call = NoCall

\* Nothing of main() has happened.
InitMainVars ==
    /\ exit_status = None
    /\ printed = "nothing"
    /\ trace = <<>>

Init ==
    /\ InitObject
    /\ InitCalls
    /\ args = NoArgs
    /\ InitMainVars

-----------------------------------------------------------------------------
(* run_command                                                             *)

\* The timeouts the call sites pass: the default and the explicit ones.
Timeouts == {5, 10, 30, 60}

Commands == {"", "echo ok", "ping -c 3 8.8.8.8"}

\* str.split() of a command: only whether any word is left matters to Popen.
SplitIsEmpty(command) == command = ""

Completed(rc, out, err) ==
    [kind |-> "completed", returncode |-> rc, stdout |-> out, stderr |-> err,
     msg |-> ""]

TimeoutExpired ==
    [kind |-> "timeout", returncode |-> 0, stdout |-> "", stderr |-> "",
     msg |-> ""]

RaisedException(m) ==
    [kind |-> "exception", returncode |-> 0, stdout |-> "", stderr |-> "",
     msg |-> m]

\* A BaseException that is not an Exception: Ctrl-C while the child runs.
KeyboardInterrupt ==
    [kind |-> "interrupt", returncode |-> 0, stdout |-> "", stderr |-> "",
     msg |-> "KeyboardInterrupt"]

ExceptionOutcomes ==
    {RaisedException(m) : m \in {"", "[Errno 2] No such file or directory",
                                 "list index out of range"}}

\* What subprocess.run can do with the command. An empty argument list
\* (shell=False and nothing left after split) never starts a child.
SubprocessOutcomes(command, shell) ==
    IF ~shell /\ SplitIsEmpty(command)
    THEN ExceptionOutcomes
    ELSE {Completed(rc, out, err) :
              rc \in {0, 1, 127}, out \in {"", "ok"}, err \in {"", "not found"}}
         \cup {TimeoutExpired, KeyboardInterrupt} \cup ExceptionOutcomes

Returned(ok, out, err) == [raised |-> "", value |-> <<ok, out, err>>]

Propagated(exc) == [raised |-> exc, value |-> <<>>]

TimedOutMessage(timeout) == "Command timed out after " \o ToString(timeout) \o "s"

\* A handler that re-raises instead of converting the failure.
run_command_reraising(command, shell, timeout, outcome) ==
    CASE outcome.kind = "completed" ->
             Returned(outcome.returncode = 0, outcome.stdout, outcome.stderr)
      [] outcome.kind = "timeout" ->
             Returned(FALSE, "", TimedOutMessage(timeout))
      [] OTHER -> Propagated(outcome.msg)

run_command(command, shell, timeout, outcome) ==
    CASE outcome.kind = "completed" ->
             Returned(outcome.returncode = 0, outcome.stdout, outcome.stderr)
      [] outcome.kind = "timeout" ->
             Returned(FALSE, "", TimedOutMessage(timeout))
      [] outcome.kind = "exception" ->
             Returned(FALSE, "", outcome.msg)
      [] OTHER -> Propagated(outcome.msg)

RunCommand ==
    \E command \in Commands, shell \in BOOLEAN, timeout \in Timeouts :
      \E outcome \in SubprocessOutcomes(command, shell) :
        /\ cmd' = [called |-> TRUE, command |-> command, shell |-> shell,
                   timeout |-> timeout, outcome |-> outcome,
                   ret |-> run_command(command, shell, timeout, outcome)]
        /\ UNCHANGED <<system, interfaces, wifi_networks, performance_data,
                       issues_detected, fixes_applied, pc, observed, q,
                   callVars, mainVars>>

NextCmd == RunCommand

SpecCmd == Init /\ [][NextCmd]_vars

-----------------------------------------------------------------------------
(* C1 *)

\* C1 (as stated): run_command never raises past its boundary: every call
\* returns a triple; a timeout gives exactly (false, "", "Command timed out
\* after Ns"), any other failure gives (false, "", <error message>).
C1_NeverRaises ==
    cmd.called =>
        /\ cmd.ret.raised = ""
        /\ Len(cmd.ret.value) = 3
        /\ cmd.ret.value[1] \in BOOLEAN
        /\ cmd.outcome.kind = "timeout" =>
               cmd.ret.value = <<FALSE, "", TimedOutMessage(cmd.timeout)>>
        /\ cmd.outcome.kind = "exception" =>
               cmd.ret.value = <<FALSE, "", cmd.outcome.msg>>

\* C1 (amended): every outcome of the child except an interruption comes
\* back as a triple: a completed child as (returncode = 0, stdout, stderr), a
\* timeout as (false, "", "Command timed out after Ns"), any other Exception
\* as (false, "", str(e)); an interruption (KeyboardInterrupt, not an
\* Exception) propagates to the caller.
C1_ExceptionsBecomeTriples ==
    cmd.called =>
        /\ cmd.outcome.kind = "interrupt" =>
               cmd.ret = [raised |-> "KeyboardInterrupt", value |-> <<>>]
        /\ cmd.outcome.kind # "interrupt" =>
               /\ cmd.ret.raised = ""
               /\ Len(cmd.ret.value) = 3
               /\ cmd.ret.value[1] \in BOOLEAN
        /\ cmd.outcome.kind = "completed" =>
               cmd.ret.value = <<cmd.outcome.returncode = 0,
                                 cmd.outcome.stdout, cmd.outcome.stderr>>
        /\ cmd.outcome.kind = "timeout" =>
               /\ cmd.ret.value[1] = FALSE
               /\ cmd.ret.value[2] = ""
               /\ cmd.timeout = 30 =>
                      cmd.ret.value[3] = "Command timed out after 30s"
               /\ cmd.timeout = 5 =>
                      cmd.ret.value[3] = "Command timed out after 5s"
               /\ cmd.ret.value[3] =
                      "Command timed out after " \o ToString(cmd.timeout) \o "s"
        /\ cmd.outcome.kind = "exception" =>
               cmd.ret.value = <<FALSE, "", cmd.outcome.msg>>

\* A call without a shell whose command splits to nothing fails to start and
\* still comes back as a triple.
C1_Witness ==
    /\ cmd.called
    /\ ~cmd.shell
    /\ cmd.command = ""
    /\ cmd.outcome.kind = "exception"
    /\ cmd.ret.value = <<FALSE, "", "list index out of range">>

-----------------------------------------------------------------------------
(* _calculate_wifi_quality                                                 *)

\* The buckets with the comparisons made strict: -50, -60, -70 and -80 fall
\* one bucket lower.
_calculate_wifi_quality_strict(signal_strength) ==
    IF signal_strength > -50 THEN 100
    ELSE IF signal_strength > -60 THEN 70
    ELSE IF signal_strength > -70 THEN 50
    ELSE IF signal_strength > -80 THEN 30
    ELSE 10

\* The buckets with the two middle results exchanged.
_calculate_wifi_quality_swapped(signal_strength) ==
    IF signal_strength >= -50 THEN 100
    ELSE IF signal_strength >= -60 THEN 50
    ELSE IF signal_strength >= -70 THEN 70
    ELSE IF signal_strength >= -80 THEN 30
    ELSE 10

_calculate_wifi_quality(signal_strength) ==
    IF signal_strength >= -50 THEN 100
    ELSE IF signal_strength >= -60 THEN 70
    ELSE IF signal_strength >= -70 THEN 50
    ELSE IF signal_strength >= -80 THEN 30
    ELSE 10

\* How far past the outermost thresholds (-80 and -50) the inputs reach.
SignalMargin == 30

SignalInputs == (-80 - SignalMargin) .. (-50 + SignalMargin)

\* One call; the call before it is kept so that two results can be compared.
CalculateWifiQuality ==
    \E s \in SignalInputs :
        /\ q' = [called |-> TRUE,
                 signal |-> s,
                 quality |-> _calculate_wifi_quality(s),
                 prev |-> IF q.called
                          THEN Some([signal |-> q.signal, quality |-> q.quality])
                          ELSE None]
        /\ UNCHANGED <<system, interfaces, wifi_networks, performance_data,
                       issues_detected, fixes_applied, pc, observed, cmd,
                   callVars, mainVars>>

NextQuality == CalculateWifiQuality

SpecQuality == Init /\ [][NextQuality]_vars

-----------------------------------------------------------------------------
(* C8, C9 *)

\* C8: quality(s) is the five-bucket step function: 100 if s >= -50, 70 if
\* -60 <= s < -50, 50 if -70 <= s < -60, 30 if -80 <= s < -70, 10 otherwise;
\* the result is always one of 100, 70, 50, 30, 10.
C8_FiveBuckets ==
    q.called =>
        /\ q.quality \in {100, 70, 50, 30, 10}
        /\ q.quality = 100 <=> q.signal >= -50
        /\ q.quality = 70 <=> (-60 <= q.signal /\ q.signal < -50)
        /\ q.quality = 50 <=> (-70 <= q.signal /\ q.signal < -60)
        /\ q.quality = 30 <=> (-80 <= q.signal /\ q.signal < -70)
        /\ q.quality = 10 <=> q.signal < -80

\* A call exactly on a threshold: -70 is still in the 50 bucket.
C8_Witness == q.called /\ q.signal = -70 /\ q.quality = 50

\* C9 (as stated): for all s1 <= s2, quality(s1) >= quality(s2).
C9_NonIncreasing ==
    (q.called /\ q.prev # None /\ q.prev[1].signal <= q.signal)
        => q.prev[1].quality >= q.quality

\* C9 (amended): quality is monotonically non-decreasing in the signal
\* strength: for all s1 <= s2, quality(s1) <= quality(s2).
C9_NonDecreasing ==
    (q.called /\ q.prev # None /\ q.prev[1].signal <= q.signal)
        => q.prev[1].quality <= q.quality

\* Two calls in different buckets, the weaker signal first.
C9_Witness ==
    /\ q.called
    /\ q.prev # None
    /\ q.prev[1].signal = -90
    /\ q.signal = -40
    /\ q.prev[1].quality = 10
    /\ q.quality = 100

-----------------------------------------------------------------------------
(* Command call sites                                                      *)

\* A child that exits 0 with the given standard output.
Ok(output) == Completed(0, output, "")

\* A child that exits non-zero.
Failed == Completed(1, "", "error")

\* success, output, error = self.run_command(command) at a call site whose
\* child ends with `outcome`.
Exec(command, outcome) == run_command(command, TRUE, 30, outcome).value

Success(r) == r[1]

Output(r) == r[2]

\* The last element of a list, None for the empty list.
LastOrNone(seq) == IF seq = <<>> THEN None ELSE Some(seq[Len(seq)])

\* [f(x) for x in seq]
Map(seq, f(_)) == [i \in 1..Len(seq) |-> f(seq[i])]

RECURSIVE Concat(_)
\* The lists of a list, joined.
Concat(seqs) == IF seqs = <<>> THEN <<>> ELSE Head(seqs) \o Concat(Tail(seqs))

\* The sequences over S of length at most n.
SeqsUpTo(S, n) == UNION {[1..k -> S] : k \in 0..n}

-----------------------------------------------------------------------------
(* NetworkInterface and the macOS detection path                           *)

NetworkInterface(name, type, status, mac_address, ip_address, gateway, dns_servers, signal_strength, frequency, channel) ==
    [name |-> name, type |-> type, status |-> status,
     mac_address |-> mac_address, ip_address |-> ip_address,
     gateway |-> gateway, dns_servers |-> dns_servers,
     signal_strength |-> signal_strength, frequency |-> frequency,
     channel |-> channel]

\* The device names the tools report, by position in the listing.
DeviceNames == <<"en0", "en1", "en2", "en3", "en4", "en5">>

MacAddresses == <<"28:cf:e9:00:00:00", "00:50:56:00:00:01", "08:00:27:00:00:02",
                  "a4:5e:60:00:00:03", "00:11:22:00:00:04", "00:11:22:00:00:05">>

\* Hardware port names, by kind and position.
WiFiPortNames == <<"Wi-Fi", "Wi-Fi 2", "Wi-Fi 3", "Wi-Fi 4", "Wi-Fi 5", "Wi-Fi 6">>

EthernetPortNames == <<"Ethernet", "Ethernet 2", "Ethernet 3", "Ethernet 4",
                       "Ethernet 5", "Ethernet 6">>

Range(seq) == {seq[i] : i \in DOMAIN seq}

\* 'wi-fi' in name.lower()
HasWiFiDash(name) == name \in Range(WiFiPortNames)

\* 'wifi' in device.lower()
HasWifi(device) == device \in {"wifi0"}

\* The dict current_interface; a key that was never set is None.
EmptyInterfaceData == [name |-> None, device |-> None, mac |-> None]

\* bool(current_interface): a dict is truthy when it has a key.
TruthyDict(d) == d # EmptyInterfaceData

\* dict.get(key, default)
Get(o, default) == IF o = None THEN default ELSE o[1]

RECURSIVE ParseHardwarePorts(_, _)
\* The loop of _detect_mac_interfaces over the lines of
\* `networksetup -listallhardwareports`, each line a <<key, value>> pair:
\* the interface_data dicts in the order they are completed.
ParseHardwarePorts(lines, current_interface) ==
    IF lines = <<>>
    THEN IF TruthyDict(current_interface) THEN <<current_interface>> ELSE <<>>
    ELSE LET line == Head(lines) IN
         CASE line[1] = "Hardware Port" ->
                  (IF TruthyDict(current_interface)
                   THEN <<current_interface>> ELSE <<>>)
                  \o ParseHardwarePorts(Tail(lines),
                         [EmptyInterfaceData EXCEPT !.name = Some(line[2])])
           [] line[1] = "Device" ->
                  ParseHardwarePorts(Tail(lines),
                         [current_interface EXCEPT !.device = Some(line[2])])
           [] line[1] = "Ethernet Address" ->
                  ParseHardwarePorts(Tail(lines),
                         [current_interface EXCEPT !.mac = Some(line[2])])
           [] OTHER -> ParseHardwarePorts(Tail(lines), current_interface)

\* What `ifconfig <device>` does in the environment env.
IfconfigOutcome(env, device) ==
    IF device \in DOMAIN env.ifconfig THEN env.ifconfig[device] ELSE Failed

\* list(set(dns_matches)): each address once, in the iteration order of the
\* set, which follows the process's string hashing: hash_order lists the
\* addresses in that order.
ListOfSet(seq, hash_order) ==
    LET in_seq(x) == x \in Range(seq) IN SelectSeq(hash_order, in_seq)

_parse_mac_interface(interface_data, env) ==
    LET device == Get(interface_data.device, "")
        r1 == Exec("ifconfig", IfconfigOutcome(env, device))
        \* re.search(r'inet (\d+\.\d+\.\d+\.\d+)', output)
        ip_address == IF Success(r1) THEN Output(r1) ELSE None
        r2 == Exec("scutil --dns", env.scutil)
        \* re.findall(r'nameserver\[\d+\] : (\d+\.\d+\.\d+\.\d+)', output)
        dns_servers == IF Success(r2)
                       THEN ListOfSet(Output(r2), env.hash_order) ELSE <<>>
        is_wifi == HasWiFiDash(Get(interface_data.name, "")) \/ HasWifi(device)
        r3 == Exec("airport -I", env.airport)
        got == is_wifi /\ Success(r3)
    IN NetworkInterface(
           Get(interface_data.name, "Unknown"),
           IF HasWiFiDash(Get(interface_data.name, "")) THEN "WiFi" ELSE "Ethernet",
           IF TruthyStr(ip_address) THEN "active" ELSE "inactive",
           Get(interface_data.mac, ""),
           ip_address,
           None,
           dns_servers,
           \* re.search(r'agrCtlRSSI: (-?\d+)', output)
           IF got THEN Output(r3).rssi ELSE None,
           \* re.search(r'(\d+\.\d+)', output), then f"{...} GHz"
           IF got /\ Output(r3).decimal # None
           THEN Some(Output(r3).decimal[1] \o " GHz") ELSE None,
           \* re.search(r'channel: (\d+)', output)
           IF got THEN Output(r3).channel ELSE None)

_detect_mac_interfaces(env) ==
    LET r == Exec("networksetup -listallhardwareports", env.networksetup)
    IN IF ~Success(r) THEN <<>>
       ELSE LET datas == ParseHardwarePorts(Output(r), EmptyInterfaceData)
                parse(d) == _parse_mac_interface(d, env)
            IN Map(datas, parse)

-----------------------------------------------------------------------------
(* Fields of a tool's output line                                          *)

\* A field as the code tests and converts it: its text, whether
\* str.isdigit() and \d+ accept it, what int() makes of it (None: ValueError)
\* and whether \w+ matches all of it.
Digits(n) == [s |-> ToString(n), isdigit |-> TRUE, int |-> Some(n), word |-> TRUE]

Signed(n) == [s |-> ToString(n), isdigit |-> FALSE, int |-> Some(n), word |-> FALSE]

Word(s) == [s |-> s, isdigit |-> FALSE, int |-> None, word |-> TRUE]

Text(s) == [s |-> s, isdigit |-> FALSE, int |-> None, word |-> FALSE]

-----------------------------------------------------------------------------
(* The Linux detection paths                                               *)

\* str.capitalize() on the device types nmcli reports.
Capitalize(iface_type) ==
    CASE iface_type = "wifi" -> "Wifi"
      [] iface_type = "ethernet" -> "Ethernet"
      [] iface_type = "loopback" -> "Loopback"
      [] iface_type = "bridge" -> "Bridge"
      [] OTHER -> iface_type

\* The lines of `nmcli -t -f IP4.ADDRESS,IP4.GATEWAY,IP4.DNS device show`
\* are <<key, value>> pairs: for IP4.ADDRESS the value is what
\* re.search(r'(\d+\.\d+\.\d+\.\d+)', line) finds (None: no match), for the
\* other keys line.split(':', 1)[1].strip().
_parse_linux_interface_nmcli(device, iface_type, state, connection, env) ==
    LET r1 == Exec("nmcli device show", env.nmcli_show[device])
        lines == IF Success(r1) THEN Output(r1) ELSE <<>>
        is_address(l) == l[1] = "IP4.ADDRESS" /\ l[2] # None
        is_gateway(l) == l[1] = "IP4.GATEWAY"
        is_dns(l) == l[1] = "IP4.DNS" /\ l[2] # ""
        value(l) == l[2]
        addresses == SelectSeq(lines, is_address)
        gateways == SelectSeq(lines, is_gateway)
        r2 == Exec("cat /sys/class/net/<device>/address", env.address[device])
        r3 == Exec("nmcli device wifi list", env.nmcli_wifi_list[device])
        in_use(l) == l.in_use
        starred == IF iface_type = "wifi" /\ Success(r3)
                   THEN SelectSeq(Output(r3), in_use) ELSE <<>>
        \* the first line that starts with '*', when it has four fields
        parts == IF starred # <<>> /\ Len(starred[1].parts) >= 4
                 THEN Some(starred[1].parts) ELSE None
    IN NetworkInterface(
           device,
           Capitalize(iface_type),
           state,
           IF Success(r2) THEN Output(r2) ELSE "",
           IF addresses = <<>> THEN None ELSE addresses[Len(addresses)][2],
           IF gateways = <<>> THEN None ELSE Some(gateways[Len(gateways)][2]),
           Map(SelectSeq(lines, is_dns), value),
           IF parts # None /\ parts[1][2].isdigit THEN parts[1][2].int ELSE None,
           IF parts # None THEN Some(parts[1][3].s) ELSE None,
           IF parts # None /\ parts[1][4].isdigit THEN parts[1][4].int ELSE None)

\* The lines of `nmcli -t -f DEVICE,TYPE,STATE,CONNECTION device`, each
\* already split at ':'.
_detect_linux_nmcli(env) ==
    LET r == Exec("nmcli device", env.nmcli_device)
        complete(parts) == Len(parts) >= 4
        parse(parts) == _parse_linux_interface_nmcli(
                            parts[1], parts[2], parts[3], parts[4], env)
    IN IF ~Success(r) THEN <<>>
       ELSE Map(SelectSeq(Output(r), complete), parse)

\* The result is a list of zero or one record: [] is the None the code
\* returns for an interface it gives up on.
_parse_linux_interface_legacy(interface_name, env) ==
    LET r1 == Exec("ip addr show", env.ip_addr[interface_name])
        \* re.search(r'inet (\d+\.\d+\.\d+\.\d+)', output)
        ip_address == Output(r1)
        r2 == Exec("cat /sys/class/net/<name>/address", env.address[interface_name])
        r3 == Exec("iwconfig", env.iwconfig[interface_name])
        \* success and "IEEE 802.11" in wireless_output
        is_wifi == Success(r3) /\ Output(r3).ieee80211
        r4 == Exec("iwlist channel", env.iwlist_channel[interface_name])
    IN IF ~env.exists[interface_name] \/ ~Success(r1) THEN <<>>
       ELSE <<NetworkInterface(
                  interface_name,
                  IF is_wifi THEN "WiFi" ELSE "Ethernet",
                  IF TruthyStr(ip_address) THEN "up" ELSE "down",
                  IF Success(r2) THEN Output(r2) ELSE "",
                  ip_address,
                  None,
                  <<>>,
                  \* re.search(r'Signal level=(-?\d+)', wireless_output)
                  IF is_wifi THEN Output(r3).signal ELSE None,
                  \* re.search(r'Frequency:(\d+\.\d+)', wireless_output)
                  IF is_wifi /\ Output(r3).frequency # None
                  THEN Some(Output(r3).frequency[1] \o " GHz") ELSE None,
                  \* re.search(r'Current Frequency.*Channel (\d+)', channel_output)
                  IF is_wifi /\ Success(r4) THEN Output(r4) ELSE None)>>

\* The names of `ls /sys/class/net/`, after output.strip().split().
_detect_linux_legacy(env) ==
    LET r == Exec("ls /sys/class/net/", env.ls)
        not_lo(name) == name # "lo"
        parse(name) == _parse_linux_interface_legacy(name, env)
    IN IF ~Success(r) THEN <<>>
       ELSE Concat(Map(SelectSeq(Output(r), not_lo), parse))

_detect_linux_interfaces(env) ==
    IF Success(Exec("which nmcli", env.which_nmcli))
    THEN _detect_linux_nmcli(env)
    ELSE _detect_linux_legacy(env)

detect_network_interfaces(env) ==
    IF is_mac THEN _detect_mac_interfaces(env) ELSE _detect_linux_interfaces(env)

\* detect_network_interfaces, the first phase of main(), in one of the
\* environments Envs.
DetectNetworkInterfaces(Envs) ==
    /\ pc = "init"
    /\ \E env \in Envs :
           interfaces' = detect_network_interfaces(env)
    /\ pc' = "detected"
    /\ UNCHANGED <<system, wifi_networks, performance_data, issues_detected,
                   fixes_applied, observed, cmd, q,
                   callVars, mainVars>>

-----------------------------------------------------------------------------
(* diagnose_issues                                                         *)

\* The values an issue's description interpolates: an interface name or an
\* IP address, and up to two numbers.
Description(text, name, n, m) == [text |-> text, name |-> name, n |-> n, m |-> m]

Issue(type, severity, description, solution) ==
    [type |-> type, severity |-> severity, description |-> description,
     solution |-> solution]

\* One requests.get(url, timeout=10): an HTTP status, or 0 for an exception
\* (no route, DNS failure, timeout).
ProbeResults == {200, 503, 0}

test_urls == <<"http://www.google.com", "http://www.cloudflare.com",
               "http://www.github.com">>

\* Only the first URL is tried.
_test_internet_connectivity_first_only(probes) == probes[1] = 200

_test_internet_connectivity(probes) ==
    \E i \in DOMAIN test_urls : probes[i] = 200

NoInternetIssue ==
    Issue("no_internet", "critical",
          Description("No internet connectivity detected", "", 0, 0),
          "Check network connection and DNS settings")

\* Each rule takes the list built so far and returns it with the rule's
\* issues appended, as the code appends to the one list `issues`.
CheckNoInternet(issues, env) ==
    IF ~_test_internet_connectivity(env.probes)
    THEN Append(issues, NoInternetIssue) ELSE issues

SlowDnsIssue(ms) ==
    Issue("slow_dns", "high", Description("Slow DNS resolution", "", ms, 0),
          "Optimize DNS servers or flush DNS cache")

\* The threshold compared with >= instead of >.
CheckSlowDns_inclusive(issues) ==
    IF performance_data # None /\ performance_data[1].dns_resolution_time >= 1000
    THEN Append(issues, SlowDnsIssue(performance_data[1].dns_resolution_time))
    ELSE issues

CheckSlowDns(issues) ==
    IF performance_data # None /\ performance_data[1].dns_resolution_time > 1000
    THEN Append(issues, SlowDnsIssue(performance_data[1].dns_resolution_time))
    ELSE issues

WeakSignalIssue(interface) ==
    Issue("weak_signal", "medium",
          Description("Weak WiFi signal on", interface.name,
                      interface.signal_strength[1], 0),
          "Move closer to router or check for interference")

\* The loop stops after the first weak interface.
CheckWeakSignal_first_only(issues) ==
    LET wifi(iface) == iface.type = "WiFi" /\ TruthyInt(iface.signal_strength)
        weak(iface) == iface.signal_strength[1] < -70
        found == SelectSeq(SelectSeq(interfaces, wifi), weak)
    IN issues \o Map(SubSeq(found, 1, IF found = <<>> THEN 0 ELSE 1),
                      WeakSignalIssue)

CheckWeakSignal(issues) ==
    LET wifi(iface) == iface.type = "WiFi" /\ TruthyInt(iface.signal_strength)
        weak(iface) == iface.signal_strength[1] < -70
        wifi_interfaces == SelectSeq(interfaces, wifi)
    IN issues \o Map(SelectSeq(wifi_interfaces, weak), WeakSignalIssue)

RECURSIVE FirstSeen(_)
\* The keys of a dict filled in the order of seq: each value once, in the
\* order of its first occurrence.
FirstSeen(seq) ==
    IF seq = <<>> THEN <<>>
    ELSE LET rest == FirstSeen(SubSeq(seq, 1, Len(seq) - 1))
             x == seq[Len(seq)]
         IN IF x \in Range(rest) THEN rest ELSE Append(rest, x)

CongestionIssue(channel, count) ==
    Issue("channel_congestion", "medium",
          Description("Channel has networks", "", channel, count),
          "Switch to less congested channel")

\* len(channel_usage[channel])
ChannelUsage(channel) ==
    Cardinality({i \in DOMAIN wifi_networks : wifi_networks[i].channel = channel})

\* A channel counts as congested from 3 networks on.
_check_channel_congestion_from_three(issues) ==
    LET channel_of(network) == network.channel
        channels == FirstSeen(Map(wifi_networks, channel_of))
        congested(channel) == ChannelUsage(channel) >= 3
        issue(channel) == CongestionIssue(channel, ChannelUsage(channel))
    IN issues \o Map(SelectSeq(channels, congested), issue)

_check_channel_congestion(issues) ==
    LET channel_of(network) == network.channel
        channels == FirstSeen(Map(wifi_networks, channel_of))
        congested(channel) == ChannelUsage(channel) > 3
        issue(channel) == CongestionIssue(channel, ChannelUsage(channel))
    IN IF wifi_networks = <<>> THEN issues
       ELSE issues \o Map(SelectSeq(channels, congested), issue)

IpConflictIssue(ip) ==
    Issue("ip_conflict", "high", Description("IP conflict detected", ip, 0, 0),
          "Release and renew IP address")

\* The interface is active and an earlier active interface has its address.
IsLaterDuplicate(i) ==
    /\ TruthyStr(interfaces[i].ip_address)
    /\ interfaces[i].status = "active"
    /\ \E j \in 1..(i - 1) :
           /\ interfaces[j].status = "active"
           /\ interfaces[j].ip_address = interfaces[i].ip_address

\* active_ips holds the addresses of the active interfaces seen so far, so
\* an interface appends an issue exactly when it is a later duplicate.
_check_ip_conflicts(issues) ==
    LET indexes == SelectSeq([i \in 1..Len(interfaces) |-> i], IsLaterDuplicate)
        issue(i) == IpConflictIssue(interfaces[i].ip_address[1])
    IN issues \o Map(indexes, issue)

MdnsIssue(cpu_usage) ==
    Issue("mdns_high_cpu", "medium",
          Description("mDNSResponder using % CPU", "", cpu_usage, 0),
          "Restart mDNSResponder service")

VpnDnsIssue ==
    Issue("vpn_dns_issue", "high",
          Description("VPN DNS configuration may be corrupted", "", 0, 0),
          "Disconnect and reconnect VPN, or flush DNS cache")

\* The output of `ps aux | grep mDNSResponder | grep -v grep` is the list of
\* the %CPU column (parts[2]) of its lines, in tenths of a percent; the
\* output of `scutil --dns` is whether it has 'resolver #8' and whether
\* 'nameserver' stands between that and 'resolver #9'.
_check_macos_specific_issues(issues, env) ==
    LET r1 == Exec("ps aux | grep mDNSResponder | grep -v grep", env.ps)
        high(cpu_usage) == cpu_usage > 100
        mdns == IF Success(r1)
                THEN Map(SelectSeq(Output(r1), high), MdnsIssue) ELSE <<>>
        r2 == Exec("scutil --dns", env.scutil_dns)
        vpn == IF Success(r2) /\ Output(r2).resolver8 /\ ~Output(r2).nameserver
               THEN <<VpnDnsIssue>> ELSE <<>>
    IN issues \o mdns \o vpn

NetworkManagerIssue ==
    Issue("networkmanager_inactive", "high",
          Description("NetworkManager service is not active", "", 0, 0),
          "Start NetworkManager service")

PowerManagementIssue(interface) ==
    Issue("wifi_power_management", "medium",
          Description("WiFi power management enabled on", interface.name, 0, 0),
          "Disable power management for better performance")

\* The output of `systemctl is-active NetworkManager` is its stripped text;
\* the output of `iwconfig <name>` is whether it has 'Power Management:on'.
_check_linux_specific_issues(issues, env) ==
    LET r == Exec("systemctl is-active NetworkManager", env.systemctl)
        nm == IF ~Success(r) \/ Output(r) # "active"
              THEN <<NetworkManagerIssue>> ELSE <<>>
        wifi(iface) == iface.type = "WiFi"
        power_on(iface) ==
            LET ri == Exec("iwconfig", env.iwconfig[iface.name])
            IN Success(ri) /\ Output(ri)
    IN issues \o nm
              \o Map(SelectSeq(SelectSeq(interfaces, wifi), power_on),
                     PowerManagementIssue)

\* Channel congestion is looked for only while nothing else has been found.
diagnose_issues_congestion_only_alone(env) ==
    LET i1 == CheckNoInternet(<<>>, env)
        i2 == CheckSlowDns(i1)
        i3 == CheckWeakSignal(i2)
        i4 == IF i3 = <<>> THEN _check_channel_congestion(i3) ELSE i3
        i5 == _check_ip_conflicts(i4)
        i6 == IF is_mac THEN _check_macos_specific_issues(i5, env) ELSE i5
    IN IF is_linux THEN _check_linux_specific_issues(i6, env) ELSE i6

diagnose_issues(env) ==
    LET i1 == CheckNoInternet(<<>>, env)
        i2 == CheckSlowDns(i1)
        i3 == CheckWeakSignal(i2)
        i4 == _check_channel_congestion(i3)
        i5 == _check_ip_conflicts(i4)
        i6 == IF is_mac THEN _check_macos_specific_issues(i5, env) ELSE i5
    IN IF is_linux THEN _check_linux_specific_issues(i6, env) ELSE i6

-----------------------------------------------------------------------------
(* _get_vendor_from_mac                                                    *)

\* str.upper() of one character: the ASCII letters change.
UpperChar(c) ==
    LET lower == "abcdefghijklmnopqrstuvwxyz"
        upper == "ABCDEFGHIJKLMNOPQRSTUVWXYZ"
        at == {i \in 1..Len(lower) : SubSeq(lower, i, i) = c}
    IN IF at = {} THEN c
       ELSE LET i == CHOOSE i \in at : TRUE IN SubSeq(upper, i, i)

RECURSIVE Upper(_)
\* str.upper()
Upper(str) ==
    IF str = "" THEN ""
    ELSE UpperChar(SubSeq(str, 1, 1)) \o Upper(SubSeq(str, 2, Len(str)))

\* str[:n]
Prefix(str, n) == SubSeq(str, 1, IF Len(str) < n THEN Len(str) ELSE n)

\* oui_map.get(oui)
oui_map(oui) ==
    CASE oui \in {"00:03:93", "00:0A:95", "00:17:F2", "28:CF:E9", "A4:5E:60",
                  "00:1B:63", "58:55:CA", "00:26:08", "3C:15:C2"} -> Some("Apple")
      [] oui = "00:50:56" -> Some("VMware")
      [] oui = "08:00:27" -> Some("VirtualBox")
      [] OTHER -> None

\* The prefix is looked up as written, without upper().
_get_vendor_from_mac_as_written(mac_address) ==
    IF mac_address = "" \/ Len(mac_address) < 8 THEN None
    ELSE oui_map(Prefix(mac_address, 8))

_get_vendor_from_mac(mac_address) ==
    IF mac_address = "" \/ Len(mac_address) < 8 THEN None
    ELSE oui_map(Upper(Prefix(mac_address, 8)))

-----------------------------------------------------------------------------
(* scan_wifi_networks                                                      *)

WiFiNetwork(ssid, bssid, channel, frequency, signal_strength, quality, encryption, vendor) ==
    [ssid |-> ssid, bssid |-> bssid, channel |-> channel,
     frequency |-> frequency, signal_strength |-> signal_strength,
     quality |-> quality, encryption |-> encryption, vendor |-> vendor]

\* The limit compared with < instead of <=: channel 14 is labelled "5 GHz".
Band_exclusive(channel) == IF channel < 14 THEN "2.4 GHz" ELSE "5 GHz"

\* "2.4 GHz" if channel <= 14 else "5 GHz"
Band(channel) == IF channel <= 14 THEN "2.4 GHz" ELSE "5 GHz"

RECURSIVE Join(_)
\* ' '.join of the texts of fields
Join(parts) ==
    IF parts = <<>> THEN ""
    ELSE IF Len(parts) = 1 THEN parts[1].s
    ELSE parts[1].s \o " " \o Join(Tail(parts))

\* lines = output.strip().split('\n')[1:]
SkipHeader(lines) == IF lines = <<>> THEN <<>> ELSE Tail(lines)

\* A line of `airport -s` is line.split(): its fields. A line with six
\* fields or more becomes a record, unless int() rejects parts[2] or
\* parts[3]: then the ValueError leaves _scan_wifi_mac.
MacLineParsed(parts) == Len(parts) >= 6

MacLineRaises(parts) ==
    MacLineParsed(parts) /\ (parts[3].int = None \/ parts[4].int = None)

MacLineNetwork(parts) ==
    WiFiNetwork(parts[1].s, parts[2].s, parts[4].int[1],
                Band(parts[4].int[1]), parts[3].int[1],
                _calculate_wifi_quality(parts[3].int[1]),
                IF Len(parts) > 6 THEN Join(SubSeq(parts, 7, Len(parts)))
                ELSE "Open",
                _get_vendor_from_mac(parts[2].s))

\* The result of a scan: the networks, or raised = TRUE when an exception
\* left the scan.
Scanned(networks) == [raised |-> FALSE, networks |-> networks]

ScanRaised == [raised |-> TRUE, networks |-> <<>>]

_scan_wifi_mac(env) ==
    LET r == Exec("airport -s", env.airport_scan)
        lines == SelectSeq(SkipHeader(Output(r)), MacLineParsed)
    IN IF ~Success(r) THEN Scanned(<<>>)
       ELSE IF \E i \in DOMAIN lines : MacLineRaises(lines[i]) THEN ScanRaised
       ELSE Scanned(Map(lines, MacLineNetwork))

\* A line of `nmcli device wifi list` is whether it starts with white
\* space, and its fields. The pattern
\*   \s*(\*?)\s+(.+?)\s+(\w+)\s+(\d+)\s+(\d+)\s+Mbit/s\s+(\d+)\s+(.+)
\* matches field-wise: NmcliFits(parts, a, b) says that the SSID can be
\* the fields a..b, followed by mode, channel, rate, "Mbit/s", signal and
\* at least one more field.
NmcliFits(parts, a, b) ==
    /\ a <= b
    /\ b + 6 <= Len(parts)
    /\ parts[b + 1].word
    /\ parts[b + 2].isdigit
    /\ parts[b + 3].isdigit
    /\ parts[b + 4].s = "Mbit/s"
    /\ parts[b + 5].isdigit

\* The SSID may start at field a: after a leading "*" (optionally after
\* white space), or after leading white space with no "*" taken.
NmcliStarts(line) ==
    (IF line.parts # <<>> /\ line.parts[1].s = "*" THEN <<2>> ELSE <<>>)
    \o (IF line.lead THEN <<1>> ELSE <<>>)

\* The match the regex engine finds first: the first start that fits at
\* all, with the shortest SSID (.+? is lazy). None: no match.
NmcliMatch(line) ==
    LET fits(a) == \E b \in a..Len(line.parts) : NmcliFits(line.parts, a, b)
        starts == SelectSeq(NmcliStarts(line), fits)
    IN IF starts = <<>> THEN None
       ELSE LET a == starts[1]
                b == CHOOSE b \in a..Len(line.parts) :
                         /\ NmcliFits(line.parts, a, b)
                         /\ \A c \in a..(b - 1) : ~NmcliFits(line.parts, a, c)
            IN Some([a |-> a, b |-> b])

NmcliLineNetwork(line) ==
    LET m == NmcliMatch(line)[1]
        parts == line.parts
        channel == parts[m.b + 2].int[1]
        signal == parts[m.b + 5].int[1]
    IN WiFiNetwork(Join(SubSeq(parts, m.a, m.b)), "", channel, Band(channel),
                   signal, signal,
                   Join(SubSeq(parts, m.b + 6, Len(parts))), None)

_parse_nmcli_wifi_scan(output) ==
    LET matches(line) == line.parts # <<>> /\ NmcliMatch(line) # None
    IN Map(SelectSeq(SkipHeader(output), matches), NmcliLineNetwork)

\* A cell of `iwlist <name> scan` is what the cell's searches find: each
\* field None when its pattern is absent.
IwlistCellNetwork(cell) ==
    LET channel == IF cell.channel # None THEN cell.channel[1] ELSE 0
        signal == IF cell.signal # None THEN cell.signal[1] ELSE -100
        bssid == IF cell.address # None THEN cell.address[1] ELSE ""
    IN WiFiNetwork(IF cell.essid # None THEN cell.essid[1] ELSE "Hidden",
                   bssid, channel, Band(channel), signal,
                   _calculate_wifi_quality(signal),
                   IF cell.privacy_on
                   THEN (IF cell.wpa2 THEN "WPA2"
                         ELSE IF cell.wpa THEN "WPA" ELSE "WEP")
                   ELSE "Open",
                   _get_vendor_from_mac(bssid))

\* output.split('Cell ')[1:]
_parse_iwlist_scan(cells) == Map(cells, IwlistCellNetwork)

_scan_wifi_linux(env) ==
    LET r == Exec("nmcli device wifi list", env.nmcli_scan)
        wifi(iface) == iface.type = "WiFi"
        scan(iface) ==
            LET ri == run_command("iwlist scan", TRUE, 60,
                                  env.iwlist_scan[iface.name]).value
            IN IF Success(ri) THEN _parse_iwlist_scan(Output(ri)) ELSE <<>>
    IN IF Success(r) THEN Scanned(_parse_nmcli_wifi_scan(Output(r)))
       ELSE Scanned(Concat(Map(SelectSeq(interfaces, wifi), scan)))

\* A scan command that fails on macOS is an exception.
scan_wifi_networks_raising_on_failure(env) ==
    IF is_mac
    THEN IF env.airport_scan = Failed THEN ScanRaised ELSE _scan_wifi_mac(env)
    ELSE _scan_wifi_linux(env)

\* A scan that extends the list of the scan before it.
scan_wifi_networks_extending(env) ==
    LET result == IF is_mac THEN _scan_wifi_mac(env) ELSE _scan_wifi_linux(env)
    IN IF result.raised THEN result
       ELSE Scanned(wifi_networks \o result.networks)

scan_wifi_networks(env) ==
    IF is_mac THEN _scan_wifi_mac(env) ELSE _scan_wifi_linux(env)

\* scan_wifi_networks as main() calls it: an exception that leaves the scan
\* ends main() in its handler.
ScanWifiNetworks(Envs) ==
    /\ pc = "detected"
    /\ \E env \in Envs :
         LET result == scan_wifi_networks(env) IN
           IF result.raised
           THEN pc' = "fatal" /\ UNCHANGED wifi_networks
           ELSE pc' = "scanned" /\ wifi_networks' = result.networks
    /\ UNCHANGED <<system, interfaces, performance_data, issues_detected,
                   fixes_applied, observed, cmd, q,
                   callVars, mainVars>>

-----------------------------------------------------------------------------
(* test_network_performance                                                *)

NetworkPerformance(download_speed, upload_speed, ping, jitter, packet_loss, dns_resolution_time) ==
    [download_speed |-> download_speed, upload_speed |-> upload_speed,
     ping |-> ping, jitter |-> jitter, packet_loss |-> packet_loss,
     dns_resolution_time |-> dns_resolution_time]

test_domains == <<"google.com", "cloudflare.com", "github.com">>

RECURSIVE Sum(_)
Sum(seq) == IF seq = <<>> THEN 0 ELSE Head(seq) + Sum(Tail(seq))

\* Each lookup is its outcome and the milliseconds the clock measured
\* around it. Times are whole milliseconds, and the lookups of a run are
\* such that total_time / successful_tests is whole.
_test_dns_resolution(lookups) ==
    LET succeeded(l) == Success(run_command("dig or nslookup", TRUE, 5, l.outcome).value)
        elapsed(l) == l.elapsed
        successful == SelectSeq([i \in DOMAIN test_domains |-> lookups[i]], succeeded)
        total_time == Sum(Map(successful, elapsed))
        successful_tests == Len(successful)
    IN total_time \div (IF successful_tests > 1 THEN successful_tests ELSE 1)

\* The output of `ping -c 3 <host>` is what re.search(r'time=(\d+\.?\d*)')
\* finds, in milliseconds (None: no match). The first host that answers
\* with a time decides.
_test_ping(pings) ==
    LET answered(p) ==
            LET r == run_command("ping -c 3", TRUE, 10, p).value
            IN Success(r) /\ Output(r) # None
        found == SelectSeq(pings, answered)
    IN IF found = <<>> THEN 999 ELSE found[1].stdout[1]

\* env.speedtest is None when the speed test raises, else its results in
\* Mbps and ms.
test_network_performance(env) ==
    LET dns_time == _test_dns_resolution(env.lookups)
        ping_result == _test_ping(env.pings)
    IN IF env.speedtest = None
       THEN NetworkPerformance(0, 0, ping_result, 0, 0, dns_time)
       ELSE NetworkPerformance(env.speedtest[1].download, env.speedtest[1].upload,
                               env.speedtest[1].ping, 0, 0, dns_time)

TestNetworkPerformance(Envs) ==
    /\ pc \in {"detected", "scanned"}
    /\ \E env \in Envs :
           performance_data' = Some(test_network_performance(env))
    /\ pc' = "tested"
    /\ UNCHANGED <<system, interfaces, wifi_networks, issues_detected,
                   fixes_applied, observed, cmd, q,
                   callVars, mainVars>>

\* diagnose_issues as main() calls it, after the phases selected before it.
DiagnoseIssues(Envs) ==
    /\ pc \in {"detected", "scanned", "tested"}
    /\ \E env \in Envs :
           /\ issues_detected' = diagnose_issues(env)
           /\ observed' = Some(env)
    /\ pc' = "diagnosed"
    /\ UNCHANGED <<system, interfaces, wifi_networks, performance_data,
                   fixes_applied, cmd, q,
                   callVars, mainVars>>

-----------------------------------------------------------------------------
(* The environments of a run: what the external tools report               *)

\* The most interfaces a listing reports.
MaxIfaces == 3

\* The most networks a scan reports on one channel.
MaxPerChannel == 4

\* The most lines (or cells) of a scan whose lines are chosen one by one.
MaxScanLines == 2

DeviceIndex(d) == CHOOSE i \in DOMAIN DeviceNames : DeviceNames[i] = d

Devices(profiles) == {DeviceNames[i] : i \in DOMAIN profiles}

PortName(kind, i) ==
    IF kind = "wifi" THEN WiFiPortNames[i] ELSE EthernetPortNames[i]

\* networksetup -listallhardwareports for the ports `profiles`.
PortLines(profiles) ==
    Concat([i \in DOMAIN profiles |->
               << <<"", "">>,
                  <<"Hardware Port", PortName(profiles[i].kind, i)>>,
                  <<"Device", DeviceNames[i]>>,
                  <<"Ethernet Address", MacAddresses[i]>> >>])

\* airport -I: agrCtlRSSI, 'channel: 6' and the first decimal number of the
\* text, the "802.11" of '802.11 auth: open'.
AirportInfo(rssi) ==
    Ok([rssi |-> rssi, channel |-> Some(6), decimal |-> Some("802.11")])

MacEnv(profiles, airport, scutil, hash_order) ==
    [networksetup |-> Ok(PortLines(profiles)),
     ifconfig |-> [d \in Devices(profiles) |-> profiles[DeviceIndex(d)].ifconfig],
     scutil |-> scutil, hash_order |-> hash_order, airport |-> airport]

MacEnvs(Profiles, Airports, Scutils, HashOrders) ==
    {MacEnv(profiles, airport, scutil, hash_order) :
        profiles \in SeqsUpTo(Profiles, MaxIfaces), airport \in Airports,
        scutil \in Scutils, hash_order \in HashOrders}
    \cup {[MacEnv(<<>>, Failed, Failed, <<>>) EXCEPT !.networksetup = Failed]}

NmcliEnv(profiles) ==
    [which_nmcli |-> Ok("/usr/bin/nmcli"),
     nmcli_device |->
         Ok([i \in DOMAIN profiles |->
                <<DeviceNames[i], profiles[i].type, profiles[i].state, "Wired">>]
            \o << <<"">> >>),
     nmcli_show |-> [d \in Devices(profiles) |-> profiles[DeviceIndex(d)].show],
     address |-> [d \in Devices(profiles) |-> Ok(MacAddresses[DeviceIndex(d)])],
     nmcli_wifi_list |->
         [d \in Devices(profiles) |-> profiles[DeviceIndex(d)].wifi_list]]

LegacyEnv(profiles) ==
    [which_nmcli |-> Failed,
     ls |-> Ok(<<"lo">> \o [i \in DOMAIN profiles |-> DeviceNames[i]]),
     exists |-> [d \in Devices(profiles) |-> profiles[DeviceIndex(d)].exists],
     ip_addr |-> [d \in Devices(profiles) |-> profiles[DeviceIndex(d)].ip_addr],
     address |-> [d \in Devices(profiles) |-> Ok(MacAddresses[DeviceIndex(d)])],
     iwconfig |-> [d \in Devices(profiles) |-> profiles[DeviceIndex(d)].iwconfig],
     iwlist_channel |-> [d \in Devices(profiles) |-> Ok(Some(6))]]

LinuxEnvs(NmcliProfiles, LegacyProfiles) ==
    {NmcliEnv(profiles) : profiles \in SeqsUpTo(NmcliProfiles, MaxIfaces)}
    \cup {[NmcliEnv(<<>>) EXCEPT !.nmcli_device = Failed]}
    \cup {LegacyEnv(profiles) : profiles \in SeqsUpTo(LegacyProfiles, MaxIfaces)}
    \cup {[LegacyEnv(<<>>) EXCEPT !.ls = Failed]}

\* nmcli device show: an address line, the gateway line, two DNS lines.
ShowLines(ip) ==
    Ok(<< <<"IP4.ADDRESS", ip>>, <<"IP4.GATEWAY", "192.168.1.1">>,
          <<"IP4.DNS", "1.1.1.1">>, <<"IP4.DNS", "">> >>)

\* nmcli -t -f IN-USE,SIGNAL,FREQ,CHAN device wifi list: a network not in
\* use, then the one in use with its signal in percent.
WifiListLines(signal) ==
    Ok(<< [in_use |-> FALSE,
           parts |-> <<Text(" "), Digits(20), Text("2412 MHz"), Digits(1)>>],
          [in_use |-> TRUE,
           parts |-> <<Text("*"), Digits(signal), Text("5180 MHz"), Digits(36)>>] >>)

\* iwconfig <name> of a wireless interface.
Iwconfig(signal) ==
    Ok([ieee80211 |-> TRUE, signal |-> signal, frequency |-> Some("2.437")])

\* iwconfig <name> of a wired interface: 'no wireless extensions'.
IwconfigWired == Ok([ieee80211 |-> FALSE, signal |-> None, frequency |-> None])

WiFiNames == {interfaces[i].name : i \in {j \in DOMAIN interfaces :
                                             interfaces[j].type = "WiFi"}}

\* The probes and commands of diagnose_issues on this platform.
DiagEnvs(Probes, PsOutcomes, ScutilOutcomes, SystemctlOutcomes, PowerOutcomes) ==
    IF is_mac
    THEN {[probes |-> probes, ps |-> ps, scutil_dns |-> scutil_dns,
           systemctl |-> Failed, iwconfig |-> <<>>] :
             probes \in Probes, ps \in PsOutcomes, scutil_dns \in ScutilOutcomes}
    ELSE {[probes |-> probes, ps |-> Failed, scutil_dns |-> Failed,
           systemctl |-> systemctl, iwconfig |-> iwconfig] :
             probes \in Probes, systemctl \in SystemctlOutcomes,
             iwconfig \in [WiFiNames -> PowerOutcomes]}

AllProbes == [DOMAIN test_urls -> ProbeResults]

-----------------------------------------------------------------------------
(* A run with --fix: interface detection, then the diagnosis               *)

FixMacProfiles ==
    {[kind |-> kind, ifconfig |-> ifconfig] :
        kind \in {"wifi", "ethernet"},
        ifconfig \in {Failed, Ok(None), Ok(Some("192.168.1.5")), Ok(Some("10.0.0.7"))}}

FixAirports ==
    {Failed} \cup {AirportInfo(rssi) : rssi \in {None, Some(0), Some(-70), Some(-71)}}

FixNmcliProfiles ==
    {[type |-> type, state |-> state, show |-> show, wifi_list |-> wifi_list] :
        type \in {"wifi", "ethernet"}, state \in {"connected", "disconnected"},
        show \in {Failed, ShowLines(Some("192.168.1.5"))},
        wifi_list \in {Failed, WifiListLines(40)}}

FixLegacyProfiles ==
    {[exists |-> TRUE, ip_addr |-> ip_addr, iwconfig |-> iwconfig] :
        ip_addr \in {Ok(None), Ok(Some("192.168.1.5"))},
        iwconfig \in {Failed, IwconfigWired, Iwconfig(None), Iwconfig(Some(-70)),
                      Iwconfig(Some(-85))}}
    \cup {[exists |-> FALSE, ip_addr |-> Failed, iwconfig |-> Failed],
          [exists |-> TRUE, ip_addr |-> Failed, iwconfig |-> Failed]}

FixDetectEnvs ==
    IF is_mac
    THEN MacEnvs(FixMacProfiles, FixAirports, {Ok(<<"8.8.8.8", "8.8.8.8">>)},
                 {<<"8.8.8.8">>})
    ELSE LinuxEnvs(FixNmcliProfiles, FixLegacyProfiles)

FixDiagEnvs ==
    DiagEnvs(AllProbes, {Ok(<<5>>)},
             {Ok([resolver8 |-> FALSE, nameserver |-> FALSE])},
             {Ok("active")}, {Ok(FALSE)})

DetectFix == DetectNetworkInterfaces(FixDetectEnvs)

DiagnoseFix == DiagnoseIssues(FixDiagEnvs)

NextFix == DetectFix \/ DiagnoseFix

SpecFix == Init /\ [][NextFix]_vars

-----------------------------------------------------------------------------
(* C2, C3, C6 *)

Count(seq, Test(_)) == Len(SelectSeq(seq, Test))

IssuesOfType(type) ==
    LET of_type(issue) == issue.type = type
    IN SelectSeq(issues_detected, of_type)

\* The interface is a WiFi one, however its detection path spells the type,
\* and its signal strength is present and below -70.
IsWeakWiFi(iface) ==
    /\ iface.type \in {"WiFi", "Wifi"}
    /\ iface.signal_strength # None
    /\ iface.signal_strength[1] < -70

\* C2: after a diagnostic pass there is exactly one weak_signal issue, of
\* severity medium, for every WiFi interface whose signal strength is present
\* and below -70, and none for any other interface: the weak_signal issues
\* are, in order, those of the qualifying interfaces, however many qualify.
C2_WeakSignalPerInterface ==
    pc = "diagnosed" =>
        /\ IssuesOfType("weak_signal")
               = Map(SelectSeq(interfaces, IsWeakWiFi), WeakSignalIssue)
        /\ \A i \in DOMAIN interfaces :
               LET about(issue) == /\ issue.type = "weak_signal"
                                   /\ issue.severity = "medium"
                                   /\ issue.description.name = interfaces[i].name
               IN Count(issues_detected, about)
                      = IF IsWeakWiFi(interfaces[i]) THEN 1 ELSE 0

\* Two interfaces qualify and a third does not; both are reported.
C2_Witness ==
    /\ pc = "diagnosed"
    /\ Count(interfaces, IsWeakWiFi) = 2
    /\ Len(interfaces) = 3
    /\ Len(IssuesOfType("weak_signal")) = 2

ActiveWith(ip) ==
    {i \in DOMAIN interfaces :
        interfaces[i].status = "active" /\ interfaces[i].ip_address = Some(ip)}

ConflictsAbout(ip) ==
    LET about(issue) == /\ issue.type = "ip_conflict"
                        /\ issue.severity = "high"
                        /\ issue.description.name = ip
    IN Count(issues_detected, about)

\* C3: after a diagnostic pass, every IP address held by two or more active
\* interfaces has exactly one ip_conflict issue of severity high, however
\* many interfaces hold it, and every other address has none; inactive
\* interfaces do not count.
C3_OnePerSharedIp ==
    pc = "diagnosed" =>
        /\ \A i \in DOMAIN interfaces :
               interfaces[i].ip_address # None =>
                   LET ip == interfaces[i].ip_address[1]
                   IN ConflictsAbout(ip)
                          = IF Cardinality(ActiveWith(ip)) >= 2 THEN 1 ELSE 0
        /\ \A k \in DOMAIN issues_detected :
               issues_detected[k].type = "ip_conflict" =>
                   ActiveWith(issues_detected[k].description.name) # {}

AllProbesFailed(probes) == \A i \in DOMAIN test_urls : probes[i] # 200

\* C6: a diagnostic pass produces a no_internet issue, one and of severity
\* critical, exactly when none of the three probes succeeds; a probe that
\* raises counts as failed and the pass still completes.
C6_NoInternetIffAllFail ==
    observed # None =>
        /\ pc = "diagnosed"
        /\ IssuesOfType("no_internet")
               = IF AllProbesFailed(observed[1].probes)
                 THEN <<NoInternetIssue>> ELSE <<>>
        /\ NoInternetIssue.severity = "critical"

\* The first two probes fail, one with an exception, and the third succeeds.
C6_Witness ==
    /\ pc = "diagnosed"
    /\ observed # None
    /\ observed[1].probes = <<0, 503, 200>>
    /\ IssuesOfType("no_internet") = <<>>

-----------------------------------------------------------------------------
(* Scans and performance tests of a full run                               *)

Repeat(x, n) == [i \in 1..n |-> x]

ScanHeader ==
    <<Text("SSID"), Text("BSSID"), Text("RSSI"), Text("CHANNEL"), Text("HT"),
      Text("CC"), Text("SECURITY")>>

\* A line of `airport -s`: SSID BSSID RSSI CHANNEL HT CC SECURITY
MacScanLine(ssid, channel, rssi) ==
    <<Text(ssid), Text("aa:bb:cc:dd:ee:01"), Signed(rssi), Digits(channel),
      Text("Y"), Text("--"), Text("WPA2(PSK/AES/AES)")>>

\* A line of `nmcli device wifi list`:
\* IN-USE SSID MODE CHAN RATE SIGNAL BARS SECURITY
NmcliScanLine(ssid, channel, signal) ==
    [lead |-> TRUE,
     parts |-> <<Word(ssid), Word("Infra"), Digits(channel), Digits(130),
                 Text("Mbit/s"), Digits(signal), Text("***"), Word("WPA2")>>]

\* A cell of `iwlist <name> scan` with all its fields.
IwlistCell(ssid, channel, signal) ==
    [essid |-> Some(ssid), address |-> Some("AA:BB:CC:DD:EE:01"),
     channel |-> Some(channel), signal |-> Some(signal),
     privacy_on |-> TRUE, wpa2 |-> TRUE, wpa |-> FALSE]

\* A scan that sees c1 networks on channel 1 and c2 on channel 6.
MacChannelScan(c1, c2) ==
    Ok(<<ScanHeader>> \o Repeat(MacScanLine("cafe", 1, -60), c1)
                      \o Repeat(MacScanLine("office", 6, -75), c2))

NmcliChannelScan(c1, c2) ==
    Ok(<<[lead |-> FALSE, parts |-> ScanHeader]>>
       \o Repeat(NmcliScanLine("cafe", 1, 75), c1)
       \o Repeat(NmcliScanLine("office", 6, 40), c2))

IwlistChannelScan(c1, c2) ==
    Ok(Repeat(IwlistCell("cafe", 1, -60), c1)
       \o Repeat(IwlistCell("office", 6, -75), c2))

\* The scans of a pass on this platform; iwlist is asked only when nmcli
\* has failed.
ScanEnvs(MacOutputs, NmcliOutputs, IwlistOutputs) ==
    IF is_mac
    THEN {[airport_scan |-> o] : o \in MacOutputs}
    ELSE {[nmcli_scan |-> o, iwlist_scan |-> [n \in WiFiNames |-> Failed]] :
             o \in NmcliOutputs}
         \cup {[nmcli_scan |-> Failed, iwlist_scan |-> f] :
                  f \in [WiFiNames -> IwlistOutputs]}

Lookup(succeeds, elapsed) ==
    [outcome |-> IF succeeds THEN Ok("93.184.216.34") ELSE Failed,
     elapsed |-> elapsed]

\* The three lookups each take `elapsed` ms.
UniformLookups(elapsed) == Repeat(Lookup(TRUE, elapsed), Len(test_domains))

PerfEnvs(Lookups, Pings, Speedtests) ==
    {[lookups |-> lookups, pings |-> pings, speedtest |-> speedtest] :
        lookups \in Lookups, pings \in Pings, speedtest \in Speedtests}

Speedtest == Some([download |-> 50, upload |-> 10, ping |-> 20])

NoPings == Repeat(Failed, 3)

-----------------------------------------------------------------------------
(* A run with --full: detection, scan, performance test, diagnosis         *)

FullDetectEnvs ==
    IF is_mac
    THEN MacEnvs({[kind |-> "wifi", ifconfig |-> Ok(Some("192.168.1.5"))]},
                 {AirportInfo(Some(-60))}, {Failed}, {<<>>})
    ELSE LinuxEnvs({[type |-> "wifi", state |-> "connected",
                     show |-> ShowLines(Some("192.168.1.5")),
                     wifi_list |-> WifiListLines(40)]},
                   {[exists |-> TRUE, ip_addr |-> Ok(Some("192.168.1.5")),
                     iwconfig |-> Iwconfig(Some(-60))]})

ChannelCounts == (0..MaxPerChannel) \X (0..MaxPerChannel)

FullScanEnvs ==
    ScanEnvs({MacChannelScan(c[1], c[2]) : c \in ChannelCounts}
                 \cup {Failed, Ok(<<ScanHeader, MacScanLine("cafe", 1, -60)
                                                \o <<Text("PSK")>>,
                                    <<Text("my")>>
                                        \o MacScanLine("cafe", 1, -60)>>)},
             {NmcliChannelScan(c[1], c[2]) : c \in ChannelCounts},
             {IwlistChannelScan(c[1], c[2]) :
                  c \in {<<0, 0>>, <<MaxPerChannel, 1>>, <<1, MaxPerChannel - 1>>}}
                 \cup {Failed})

FullPerfEnvs ==
    PerfEnvs({UniformLookups(elapsed) : elapsed \in {200, 1000, 1001, 1500}}
                 \cup {Repeat(Lookup(FALSE, 5000), Len(test_domains)),
                       <<Lookup(FALSE, 5000), Lookup(TRUE, 500), Lookup(TRUE, 1500)>>,
                       <<Lookup(TRUE, 1500), Lookup(TRUE, 1500), Lookup(TRUE, 3000)>>},
             {NoPings, <<Failed, Ok(None), Ok(Some(12))>>},
             {Speedtest, None})

FullDiagEnvs ==
    DiagEnvs({Repeat(200, Len(test_urls)), Repeat(0, Len(test_urls))},
             {Ok(<<5>>)}, {Ok([resolver8 |-> FALSE, nameserver |-> FALSE])},
             {Ok("active")}, {Ok(FALSE)})

DetectFull == DetectNetworkInterfaces(FullDetectEnvs)

ScanFull == ScanWifiNetworks(FullScanEnvs)

TestFull == TestNetworkPerformance(FullPerfEnvs)

DiagnoseFull == DiagnoseIssues(FullDiagEnvs)

NextFull == DetectFull \/ ScanFull \/ TestFull \/ DiagnoseFull

SpecFull == Init /\ [][NextFull]_vars

-----------------------------------------------------------------------------
(* C4, C5 *)

NetworksOn(channel) ==
    LET on(network) == network.channel = channel
    IN Count(wifi_networks, on)

CongestionsAbout(channel) ==
    LET about(issue) == /\ issue.type = "channel_congestion"
                        /\ issue.severity = "medium"
                        /\ issue.description.n = channel
                        /\ issue.description.m = NetworksOn(channel)
    IN Count(issues_detected, about)

\* C4: after a diagnostic pass, every channel that carries more than 3 of
\* the observed networks has exactly one channel_congestion issue of
\* severity medium, giving the channel and its count, and a channel with 3
\* networks or fewer has none: there are no other channel_congestion issues.
C4_CongestionPerChannel ==
    pc = "diagnosed" =>
        /\ \A i \in DOMAIN wifi_networks :
               LET channel == wifi_networks[i].channel
               IN CongestionsAbout(channel)
                      = IF NetworksOn(channel) > 3 THEN 1 ELSE 0
        /\ Len(IssuesOfType("channel_congestion"))
               = Cardinality({wifi_networks[i].channel : i \in
                                 {j \in DOMAIN wifi_networks :
                                     NetworksOn(wifi_networks[j].channel) > 3}})

\* Channels {1,1,1,1,6,6}: one issue, for channel 1 with count 4.
C4_Witness ==
    /\ pc = "diagnosed"
    /\ NetworksOn(1) = 4
    /\ NetworksOn(6) = 2
    /\ Len(wifi_networks) = 6
    /\ IssuesOfType("channel_congestion") = <<CongestionIssue(1, 4)>>

\* C5: a diagnostic pass produces a slow_dns issue, one and of severity
\* high, exactly when there is a performance sample and its DNS resolution
\* time is strictly above 1000 ms.
C5_SlowDnsAboveThreshold ==
    pc = "diagnosed" =>
        LET slow == /\ performance_data # None
                    /\ performance_data[1].dns_resolution_time > 1000
        IN /\ Len(IssuesOfType("slow_dns")) = (IF slow THEN 1 ELSE 0)
           /\ \A k \in DOMAIN issues_detected :
                  issues_detected[k].type = "slow_dns" =>
                      /\ issues_detected[k].severity = "high"
                      /\ issues_detected[k].description.n
                             = performance_data[1].dns_resolution_time

\* A sample of 1500 ms, reported.
C5_Witness ==
    /\ pc = "diagnosed"
    /\ performance_data # None
    /\ performance_data[1].dns_resolution_time = 1500
    /\ Len(IssuesOfType("slow_dns")) = 1

-----------------------------------------------------------------------------
(* A full run on which several rules fire together                         *)

RulesDetectEnvs ==
    IF is_mac
    THEN MacEnvs({[kind |-> "wifi", ifconfig |-> Ok(Some("192.168.1.5"))]},
                 {AirportInfo(Some(-85)), Failed}, {Failed}, {<<>>})
    ELSE LinuxEnvs({[type |-> "wifi", state |-> "connected",
                     show |-> ShowLines(Some("192.168.1.5")),
                     wifi_list |-> WifiListLines(40)]},
                   {[exists |-> TRUE, ip_addr |-> Ok(Some("192.168.1.5")),
                     iwconfig |-> Iwconfig(Some(-85))]})

RulesChannelCounts == {<<MaxPerChannel, MaxPerChannel>>, <<1, MaxPerChannel>>}

RulesScanEnvs ==
    ScanEnvs({MacChannelScan(c[1], c[2]) : c \in RulesChannelCounts},
             {NmcliChannelScan(c[1], c[2]) : c \in RulesChannelCounts},
             {IwlistChannelScan(MaxPerChannel, 0), Failed})

RulesPerfEnvs ==
    PerfEnvs({UniformLookups(1500)}, {NoPings}, {None})

RulesDiagEnvs ==
    DiagEnvs({Repeat(200, Len(test_urls)), Repeat(0, Len(test_urls))},
             {Ok(<<5>>), Ok(<<150, 5, 200>>)},
             {Ok([resolver8 |-> TRUE, nameserver |-> FALSE])},
             {Ok("inactive")}, {Ok(FALSE), Ok(TRUE)})

DetectRules == DetectNetworkInterfaces(RulesDetectEnvs)

ScanRules == ScanWifiNetworks(RulesScanEnvs)

TestRules == TestNetworkPerformance(RulesPerfEnvs)

DiagnoseRules == DiagnoseIssues(RulesDiagEnvs)

NextRules == DetectRules \/ ScanRules \/ TestRules \/ DiagnoseRules

SpecRules == Init /\ [][NextRules]_vars

-----------------------------------------------------------------------------
(* C7 *)

\* The rules of a pass, numbered in the order of the code; the sixth is the
\* platform's own.
RuleIds == 1..6

ApplyRule(k, issues, env) ==
    CASE k = 1 -> CheckNoInternet(issues, env)
      [] k = 2 -> CheckSlowDns(issues)
      [] k = 3 -> CheckWeakSignal(issues)
      [] k = 4 -> _check_channel_congestion(issues)
      [] k = 5 -> _check_ip_conflicts(issues)
      [] k = 6 -> IF is_mac THEN _check_macos_specific_issues(issues, env)
                  ELSE _check_linux_specific_issues(issues, env)

RECURSIVE ApplyInOrder(_, _, _)
ApplyInOrder(order, issues, env) ==
    IF order = <<>> THEN issues
    ELSE ApplyInOrder(Tail(order), ApplyRule(Head(order), issues, env), env)

\* The rules in every order.
Orders == {order \in [RuleIds -> RuleIds] :
              \A i, j \in RuleIds : i # j => order[i] # order[j]}

Alone(k) == ApplyRule(k, <<>>, observed[1])

\* C7: the issues of a diagnostic pass are the union of what each rule
\* produces on its own from the same records, no more and no fewer, and they
\* are the same set in whatever order the rules are evaluated.
C7_RulesIndependent ==
    pc = "diagnosed" =>
        /\ Range(issues_detected) = UNION {Range(Alone(k)) : k \in RuleIds}
        /\ Len(issues_detected) = Sum([k \in RuleIds |-> Len(Alone(k))])
        /\ \A order \in Orders :
               Range(ApplyInOrder(order, <<>>, observed[1]))
                   = Range(issues_detected)

\* A pass in which five different rules fire, no_internet among them.
C7_Witness ==
    /\ pc = "diagnosed"
    /\ Cardinality({k \in RuleIds : Alone(k) # <<>>}) >= 5
    /\ NoInternetIssue \in Range(issues_detected)
    /\ IssuesOfType("channel_congestion") # <<>>

-----------------------------------------------------------------------------
(* A run with --scan: detection, then the scan, line by line               *)

ScanDetectEnvs ==
    IF is_mac
    THEN MacEnvs({[kind |-> "wifi", ifconfig |-> Ok(None)]}, {Failed}, {Failed},
                 {<<>>})
    ELSE LinuxEnvs({[type |-> "wifi", state |-> "connected", show |-> Failed,
                     wifi_list |-> Failed]},
                   {[exists |-> TRUE, ip_addr |-> Ok(None),
                     iwconfig |-> Iwconfig(Some(-60))]})

\* Lines of `airport -s`: three networks, a line cut short, and a network
\* whose SSID has a space, which shifts the BSSID into parts[2].
MacSampleLines ==
    {MacScanLine("cafe", 14, -67), MacScanLine("lab", 15, -90),
     MacScanLine("desk", 11, -45) \o <<Text("PSK")>>,
     <<Text("cafe"), Text("aa:bb:cc:dd:ee:01")>>,
     <<Text("my")>> \o MacScanLine("cafe", 1, -60)}

\* Lines of `nmcli device wifi list`: a network, the network in use, an
\* SSID of two words, a blank line, and a network whose SSID is
\* "x Infra 1 1 Mbit/s 999 z".
NmcliSampleLines ==
    {NmcliScanLine("cafe", 14, 75),
     [lead |-> FALSE,
      parts |-> <<Text("*")>> \o NmcliScanLine("home", 15, 100).parts],
     [lead |-> TRUE,
      parts |-> <<Word("my")>> \o NmcliScanLine("cafe", 1, 40).parts],
     [lead |-> FALSE, parts |-> <<>>],
     [lead |-> TRUE,
      parts |-> <<Word("x"), Word("Infra"), Digits(1), Digits(1), Text("Mbit/s"),
                  Digits(999), Word("z")>>
                \o Tail(NmcliScanLine("", 6, 75).parts)]}

\* Cells of `iwlist scan`: one with every field, one with none.
IwlistSampleCells ==
    {IwlistCell("cafe", 15, -30),
     [essid |-> None, address |-> None, channel |-> None, signal |-> None,
      privacy_on |-> FALSE, wpa2 |-> FALSE, wpa |-> FALSE]}

LineScanEnvs ==
    ScanEnvs({Ok(<<ScanHeader>> \o lines) :
                 lines \in SeqsUpTo(MacSampleLines, MaxScanLines)} \cup {Failed},
             {Ok(<<[lead |-> FALSE, parts |-> ScanHeader]>> \o lines) :
                 lines \in SeqsUpTo(NmcliSampleLines, MaxScanLines)},
             {Ok(cells) : cells \in SeqsUpTo(IwlistSampleCells, MaxScanLines)}
                 \cup {Failed})

DetectScan == DetectNetworkInterfaces(ScanDetectEnvs)

ScanLines == ScanWifiNetworks(LineScanEnvs)

NextScan == DetectScan \/ ScanLines

SpecScan == Init /\ [][NextScan]_vars

-----------------------------------------------------------------------------
(* C10 *)

\* C10: every WiFiNetwork record a scan produces, on any of the three scan
\* paths, has its quality between 0 and 100.
C10_QualityInRange ==
    \A i \in DOMAIN wifi_networks :
        /\ wifi_networks[i].quality >= 0
        /\ wifi_networks[i].quality <= 100

-----------------------------------------------------------------------------
(* C11 *)

\* C11: whenever the signal strength is present on an interface record or a
\* WiFiNetwork record, whichever detection or scan path produced it, it is
\* a non-positive integer.
C11_SignalNonPositive ==
    /\ \A i \in DOMAIN interfaces :
           interfaces[i].signal_strength # None =>
               interfaces[i].signal_strength[1] <= 0
    /\ \A i \in DOMAIN wifi_networks : wifi_networks[i].signal_strength <= 0

-----------------------------------------------------------------------------
(* C12 *)

\* C12: every WiFiNetwork record of every scan path carries the label
\* "2.4 GHz" exactly when its channel is <= 14 and "5 GHz" otherwise.
C12_BandByChannel ==
    \A i \in DOMAIN wifi_networks :
        /\ wifi_networks[i].frequency \in {"2.4 GHz", "5 GHz"}
        /\ wifi_networks[i].frequency = "2.4 GHz"
               <=> wifi_networks[i].channel <= 14

\* A scan with a network on channel 14 and one on channel 15.
C12_Witness ==
    /\ pc = "scanned"
    /\ \E i, j \in DOMAIN wifi_networks :
           /\ wifi_networks[i].channel = 14
           /\ wifi_networks[i].frequency = "2.4 GHz"
           /\ wifi_networks[j].channel = 15
           /\ wifi_networks[j].frequency = "5 GHz"

-----------------------------------------------------------------------------
(* Calls of _get_vendor_from_mac                                           *)

\* The keys of the table, some of them in lower case, and prefixes that are
\* no key.
OuiPrefixes ==
    {"00:03:93", "00:0A:95", "00:17:F2", "28:CF:E9", "A4:5E:60", "00:1B:63",
     "58:55:CA", "00:26:08", "3C:15:C2", "00:50:56", "08:00:27",
     "00:0a:95", "00:17:f2", "28:cf:e9", "a4:5E:60", "00:1b:63", "58:55:ca",
     "3c:15:c2", "00:03:94", "FF:FF:FF", "00-03-93", "0:03:93:", "08:00:2"}

MacSuffixes == {"", ":00:00:01", ":AA:bb:CC", "0"}

MacInputs == {prefix \o suffix : prefix \in OuiPrefixes, suffix \in MacSuffixes}
                 \cup {"", "0", "28:CF:E", "00:50:5"}

GetVendorFromMac ==
    /\ \E mac_address \in MacInputs :
           vendor_call' = [called |-> TRUE, mac_address |-> mac_address,
                           result |-> _get_vendor_from_mac(mac_address)]
    /\ UNCHANGED <<system, interfaces, wifi_networks, performance_data,
                   issues_detected, fixes_applied, pc, observed, cmd, q,
                   fix_call, reports, parse_call, dns_call, mainVars>>

NextVendor == GetVendorFromMac

SpecVendor == Init /\ [][NextVendor]_vars

-----------------------------------------------------------------------------
(* C13 *)

\* C13: vendor(mac) is the table's label when the upper-cased first 8
\* characters of mac are a key of the table, and absent when mac is empty,
\* shorter than 8 characters or has another prefix.
C13_VendorByPrefix ==
    vendor_call.called =>
        LET mac == vendor_call.mac_address
            key == Upper(SubSeq(mac, 1, 8))
        IN /\ vendor_call.result \in {None, Some("Apple"), Some("VMware"),
                                      Some("VirtualBox")}
           /\ Len(mac) < 8 => vendor_call.result = None
           /\ Len(mac) >= 8 => vendor_call.result = oui_map(key)
           /\ (Len(mac) >= 8 /\ key = "28:CF:E9")
                  => vendor_call.result = Some("Apple")
           /\ (Len(mac) >= 8 /\ key = "08:00:27")
                  => vendor_call.result = Some("VirtualBox")

\* A MAC address written in lower case whose prefix is a key.
C13_Witness ==
    /\ vendor_call.called
    /\ vendor_call.mac_address = "28:cf:e9:00:00:01"
    /\ vendor_call.result = Some("Apple")

-----------------------------------------------------------------------------
(* _apply_fix_for_issue and the fixes                                      *)

FixResult(issue, fix_text, success) ==
    [issue |-> issue, fix |-> fix_text, success |-> success]

\* What a fix returns, with the success flags of the run_command calls it
\* made, in the order of the calls.
Fixed(result, invoked) == [result |-> result, invoked |-> invoked]

_fix_dns_issues(env) ==
    IF is_mac
    THEN LET r1 == Exec("sudo dscacheutil -flushcache", env.dscacheutil)
             r2 == Exec("sudo killall -HUP mDNSResponder", env.killall)
         IN Fixed(IF Success(r1) /\ Success(r2)
                  THEN FixResult("slow_dns",
                                 "Flushed DNS cache and restarted mDNSResponder",
                                 TRUE)
                  ELSE FixResult("slow_dns", "DNS fix failed", FALSE),
                  <<Success(r1), Success(r2)>>)
    ELSE LET r == Exec("sudo systemctl restart systemd-resolved",
                       env.restart_resolved)
         IN Fixed(IF Success(r)
                  THEN FixResult("slow_dns", "Restarted systemd-resolved", TRUE)
                  ELSE FixResult("slow_dns", "DNS fix failed", FALSE),
                  <<Success(r)>>)

_fix_mdns_issues(env) ==
    LET r == Exec("sudo killall -HUP mDNSResponder", env.killall)
    IN Fixed(FixResult("mdns_high_cpu", "Restarted mDNSResponder", Success(r)),
             <<Success(r)>>)

_fix_vpn_dns_issues(env) ==
    LET r1 == Exec("sudo dscacheutil -flushcache", env.dscacheutil)
        r2 == Exec("sudo killall -HUP mDNSResponder", env.killall)
    IN Fixed(FixResult("vpn_dns_issue", "Cleared VPN DNS cache",
                       Success(r1) /\ Success(r2)),
             <<Success(r1), Success(r2)>>)

_fix_networkmanager_issues(env) ==
    LET r == Exec("sudo systemctl start NetworkManager", env.start_nm)
    IN Fixed(FixResult("networkmanager_inactive",
                       "Started NetworkManager service", Success(r)),
             <<Success(r)>>)

\* The loop returns at the first interface whose command succeeds: the
\* commands made are those up to and including it.
_fix_wifi_power_management(env) ==
    LET wifi(iface) == iface.type = "WiFi"
        wifi_interfaces == SelectSeq(interfaces, wifi)
        off(i) == Success(Exec("sudo iwconfig power off",
                               env.power_off[wifi_interfaces[i].name]))
        succeeded == {i \in DOMAIN wifi_interfaces : off(i)}
    IN IF succeeded = {}
       THEN Fixed(FixResult("wifi_power_management",
                            "Failed to disable power management", FALSE),
                  [i \in DOMAIN wifi_interfaces |-> FALSE])
       ELSE LET first == CHOOSE i \in succeeded : \A j \in succeeded : i <= j
            IN Fixed(FixResult("wifi_power_management",
                               "Disabled power management on "
                                   \o wifi_interfaces[first].name, TRUE),
                     [i \in 1..first |-> i = first])

_optimize_wifi_connection ==
    Fixed(FixResult("weak_signal", "Applied WiFi optimization settings", TRUE),
          <<>>)

NoFix == [result |-> None, invoked |-> <<>>]

Returning(fixed) == [result |-> Some(fixed.result), invoked |-> fixed.invoked]

\* weak_signal has no action.
_apply_fix_for_issue_without_weak_signal(issue, env) ==
    CASE issue.type = "slow_dns" -> Returning(_fix_dns_issues(env))
      [] issue.type = "mdns_high_cpu" -> Returning(_fix_mdns_issues(env))
      [] issue.type = "vpn_dns_issue" -> Returning(_fix_vpn_dns_issues(env))
      [] issue.type = "networkmanager_inactive"
             -> Returning(_fix_networkmanager_issues(env))
      [] issue.type = "wifi_power_management"
             -> Returning(_fix_wifi_power_management(env))
      [] OTHER -> NoFix

\* The result is None or the fix's dict; no fix raises an Exception, so the
\* except branch is never taken.
_apply_fix_for_issue(issue, env) ==
    CASE issue.type = "slow_dns" -> Returning(_fix_dns_issues(env))
      [] issue.type = "mdns_high_cpu" -> Returning(_fix_mdns_issues(env))
      [] issue.type = "vpn_dns_issue" -> Returning(_fix_vpn_dns_issues(env))
      [] issue.type = "networkmanager_inactive"
             -> Returning(_fix_networkmanager_issues(env))
      [] issue.type = "wifi_power_management"
             -> Returning(_fix_wifi_power_management(env))
      [] issue.type = "weak_signal" -> Returning(_optimize_wifi_connection)
      [] OTHER -> NoFix

\* The commands of the fixes on this state: each sudo command ends with one
\* of Outcomes.
FixEnvs(Outcomes) ==
    {[dscacheutil |-> a, killall |-> b, restart_resolved |-> c, start_nm |-> d,
      power_off |-> e] :
        a \in Outcomes, b \in Outcomes, c \in Outcomes, d \in Outcomes,
        e \in [WiFiNames -> Outcomes]}

ApplyFixForIssue(Issues, Envs) ==
    /\ \E issue \in Issues, env \in Envs :
           LET fixed == _apply_fix_for_issue(issue, env)
           IN fix_call' = [called |-> TRUE, issue |-> issue,
                           result |-> fixed.result, invoked |-> fixed.invoked]
    /\ UNCHANGED <<system, interfaces, wifi_networks, performance_data,
                   issues_detected, fixes_applied, pc, observed, cmd, q,
                   vendor_call, reports, parse_call, dns_call, mainVars>>

-----------------------------------------------------------------------------
(* Calls of _apply_fix_for_issue on the interfaces of a detection          *)

RemedyDetectEnvs ==
    IF is_mac
    THEN MacEnvs({[kind |-> "wifi", ifconfig |-> Ok(None)]}, {Failed}, {Failed},
                 {<<>>})
    ELSE LinuxEnvs({[type |-> "wifi", state |-> "connected", show |-> Failed,
                     wifi_list |-> Failed]},
                   {[exists |-> TRUE, ip_addr |-> Ok(None),
                     iwconfig |-> Iwconfig(Some(-60))],
                    [exists |-> TRUE, ip_addr |-> Ok(None),
                     iwconfig |-> IwconfigWired]})

\* The kinds diagnose_issues produces, and one it does not.
IssueKinds ==
    {"no_internet", "slow_dns", "weak_signal", "channel_congestion",
     "ip_conflict", "mdns_high_cpu", "vpn_dns_issue", "networkmanager_inactive",
     "wifi_power_management", "unknown_kind"}

IssueOfKind(type) == Issue(type, "medium", Description("", "", 0, 0), "")

DetectRemedy == DetectNetworkInterfaces(RemedyDetectEnvs)

ApplyFixRemedy ==
    ApplyFixForIssue({IssueOfKind(type) : type \in IssueKinds},
                     FixEnvs({Ok(""), Failed}))

NextRemedy == DetectRemedy \/ ApplyFixRemedy

SpecRemedy == Init /\ [][NextRemedy]_vars

-----------------------------------------------------------------------------
(* C14, C15 *)

MappedKinds ==
    {"slow_dns", "mdns_high_cpu", "vpn_dns_issue", "networkmanager_inactive",
     "wifi_power_management", "weak_signal"}

\* C14: given one issue, the dispatcher returns no FixResult when the kind
\* has no mapped action, and one FixResult whose issue kind is the issue's
\* kind when the kind is one of the six mapped ones.
C14_DispatchByKind ==
    fix_call.called =>
        IF fix_call.issue.type \in MappedKinds
        THEN /\ fix_call.result # None
             /\ fix_call.result[1].issue = fix_call.issue.type
             /\ fix_call.result[1].success \in BOOLEAN
        ELSE fix_call.result = None

\* A power-management issue dispatched on a host with two WiFi interfaces,
\* the command failing on the first of them.
C14_Witness ==
    /\ fix_call.called
    /\ fix_call.issue.type = "wifi_power_management"
    /\ fix_call.result # None
    /\ fix_call.result[1].issue = "wifi_power_management"
    /\ fix_call.invoked = <<FALSE, TRUE>>

\* C15: every mapped action makes one or more run_command calls, and the
\* FixResult's success flag is the conjunction of the success flags of all
\* the calls it made.
C15_SuccessIsConjunction ==
    (fix_call.called /\ fix_call.result # None) =>
        /\ Len(fix_call.invoked) >= 1
        /\ fix_call.result[1].success
               = (\A i \in DOMAIN fix_call.invoked : fix_call.invoked[i])

-----------------------------------------------------------------------------
(* apply_automatic_fixes and generate_report                               *)

\* The loop ends at the first fix that reports a failure.
apply_automatic_fixes_stopping_at_failure(envs) ==
    LET result(i) == _apply_fix_for_issue(issues_detected[i], envs[i]).result
        failed(i) == result(i) # None /\ ~result(i)[1].success
        applied(i) ==
            /\ result(i) # None
            /\ \A j \in 1..(i - 1) : ~failed(j)
        value(i) == result(i)[1]
    IN Map(SelectSeq([i \in DOMAIN issues_detected |-> i], applied), value)

\* envs[i] is what the commands return during the fix of the i-th issue.
apply_automatic_fixes(envs) ==
    LET result(i) == _apply_fix_for_issue(issues_detected[i], envs[i]).result
        applied(i) == result(i) # None
        value(i) == result(i)[1]
    IN Map(SelectSeq([i \in DOMAIN issues_detected |-> i], applied), value)

\* The summary counts the reports made so far instead of the fixes applied.
generate_report_counting_calls(timestamp) ==
    LET active(iface) == iface.status \in {"active", "up"}
    IN [timestamp |-> timestamp,
        system |-> system,
        interfaces |-> interfaces,
        wifi_networks |-> wifi_networks,
        performance |-> performance_data,
        issues_detected |-> issues_detected,
        fixes_applied |-> fixes_applied,
        summary |-> [total_interfaces |-> Len(interfaces),
                     active_interfaces |-> Len(SelectSeq(interfaces, active)),
                     wifi_networks_found |-> Len(wifi_networks),
                     issues_found |-> Len(issues_detected),
                     fixes_applied |-> Len(reports)]]

\* asdict() of a record of the model is the record itself; timestamp is
\* datetime.now().isoformat().
generate_report(timestamp) ==
    LET active(iface) == iface.status \in {"active", "up"}
    IN [timestamp |-> timestamp,
        system |-> system,
        interfaces |-> interfaces,
        wifi_networks |-> wifi_networks,
        performance |-> performance_data,
        issues_detected |-> issues_detected,
        fixes_applied |-> fixes_applied,
        summary |-> [total_interfaces |-> Len(interfaces),
                     active_interfaces |-> Len(SelectSeq(interfaces, active)),
                     wifi_networks_found |-> Len(wifi_networks),
                     issues_found |-> Len(issues_detected),
                     fixes_applied |-> Len(fixes_applied)]]

\* The clock at two calls.
Timestamps == {"2025-01-01T10:00:00", "2025-01-01T10:00:07"}

\* One call of generate_report; the report before it is kept, each with the
\* phase the object was in.
GenerateReport ==
    /\ \E timestamp \in Timestamps :
           reports' = (IF reports = <<>> THEN <<>>
                       ELSE <<reports[Len(reports)]>>)
                          \o <<[at |-> pc, report |-> generate_report(timestamp)]>>
    /\ UNCHANGED <<system, interfaces, wifi_networks, performance_data,
                   issues_detected, fixes_applied, pc, observed, cmd, q,
                   vendor_call, fix_call, parse_call, dns_call, mainVars>>

\* The environment in which every command of a fix ends with `outcome`.
AllEnding(outcome) == CHOOSE env \in FixEnvs({outcome}) : TRUE

\* apply_automatic_fixes as main() calls it, after diagnose_issues; each
\* issue's fix runs in one of Envs.
ApplyAutomaticFixes(Envs) ==
    /\ pc = "diagnosed"
    /\ \E envs \in [DOMAIN issues_detected -> Envs] :
           fixes_applied' = apply_automatic_fixes(envs)
    /\ pc' = "fixed"
    /\ UNCHANGED <<system, interfaces, wifi_networks, performance_data,
                   issues_detected, observed, cmd, q, callVars, mainVars>>

-----------------------------------------------------------------------------
(* Reports of an object at every phase of a run                            *)

ReportScanEnvs ==
    ScanEnvs({MacChannelScan(1, MaxPerChannel)},
             {NmcliChannelScan(1, MaxPerChannel)},
             {IwlistChannelScan(MaxPerChannel, 0)})

ScanReport == ScanWifiNetworks(ReportScanEnvs)

ReportDiagEnvs ==
    DiagEnvs({Repeat(0, Len(test_urls))}, {Ok(<<150, 5, 200>>)},
             {Ok([resolver8 |-> TRUE, nameserver |-> FALSE])},
             {Ok("inactive")}, {Ok(TRUE)})

DiagnoseReport == DiagnoseIssues(ReportDiagEnvs)

FixAllOrNone == {AllEnding(Ok("")), AllEnding(Failed)}

FixReport == ApplyAutomaticFixes(FixAllOrNone)

NextReport ==
    \/ DetectRules
    \/ ScanReport
    \/ TestRules
    \/ DiagnoseReport
    \/ FixReport
    \/ GenerateReport

SpecReport == Init /\ [][NextReport]_vars

-----------------------------------------------------------------------------
(* C19 *)

WithoutTimestamp(r) == [field \in DOMAIN r \ {"timestamp"} |-> r[field]]

\* C19: a call of generate_report leaves interfaces, wifi_networks,
\* performance_data, issues_detected and fixes_applied as they are, and the
\* report it returns is, but for the timestamp, the report of the call
\* before it whenever no phase has run in between.
C19_ReportIdempotent ==
    [][reports' # reports =>
           /\ UNCHANGED <<interfaces, wifi_networks, performance_data,
                          issues_detected, fixes_applied>>
           /\ (Len(reports') = 2 /\ reports'[1].at = reports'[2].at)
                  => WithoutTimestamp(reports'[1].report)
                         = WithoutTimestamp(reports'[2].report)]_vars

\* Two reports of the same records after fixes, seven seconds apart.
C19_Witness ==
    /\ Len(reports) = 2
    /\ reports[1].at = "fixed"
    /\ reports[2].at = "fixed"
    /\ reports[1].report.timestamp # reports[2].report.timestamp
    /\ reports[2].report.summary.fixes_applied >= 2
    /\ WithoutTimestamp(reports[1].report) = WithoutTimestamp(reports[2].report)

-----------------------------------------------------------------------------
(* main(): one invocation, from the start of the process to its exit       *)

\* What platform.system() can report; the tool accepts the first two.
Platforms == Systems \cup {"Windows"}

\* The namespaces parse_args can return: each flag given or not, --output
\* not given, given as the empty string, or given as a path.
ArgSets ==
    [scan : BOOLEAN, speed_test : BOOLEAN, fix : BOOLEAN, optimize : BOOLEAN,
     report : BOOLEAN, output : {None, Some(""), Some("report.json")},
     verbose : BOOLEAN]

\* The process starts: nothing is constructed, the flags are parsed later
\* but are those of the command line.
InitMain ==
    /\ system \in Platforms
    /\ interfaces = <<>>
    /\ wifi_networks = <<>>
    /\ performance_data = None
    /\ issues_detected = <<>>
    /\ fixes_applied = <<>>
    /\ pc = "boot"
    /\ observed = None
    /\ InitCalls
    /\ args \in ArgSets
    /\ InitMainVars

\* The statements with the diagnosis and the fixes exchanged.
Statements_fix_first ==
    <<"detect", "scan", "test", "fix", "diagnose", "optimize", "report">>

\* The statements of main()'s try block that call the object, in the order
\* of the text.
Statements ==
    <<"detect", "scan", "test", "diagnose", "fix", "optimize", "report">>

\* Every condition is the statement's own flag only.
Selected_by_own_flag(statement) ==
    CASE statement = "scan" -> args.scan
      [] statement = "test" -> args.speed_test
      [] statement \in {"diagnose", "fix"} -> args.fix
      [] statement = "optimize" -> args.optimize
      [] OTHER -> TRUE

\* The condition under which main() executes a statement. diagnose_issues
\* and apply_automatic_fixes are under one condition.
Selected(statement) ==
    CASE statement = "scan" ->
             args.scan \/ ~(args.speed_test \/ args.fix \/ args.optimize \/ args.report)
      [] statement = "test" ->
             args.speed_test \/ ~(args.scan \/ args.fix \/ args.optimize \/ args.report)
      [] statement \in {"diagnose", "fix"} ->
             args.fix \/ ~(args.scan \/ args.speed_test \/ args.optimize \/ args.report)
      [] statement = "optimize" -> args.optimize
      [] OTHER -> TRUE

\* pc after a statement has completed.
Done(statement) ==
    CASE statement = "detect" -> "detected"
      [] statement = "scan" -> "scanned"
      [] statement = "test" -> "tested"
      [] statement = "diagnose" -> "diagnosed"
      [] statement = "fix" -> "fixed"
      [] statement = "optimize" -> "optimized"
      [] statement = "report" -> "reported"

\* The statement control is at: the first one after the last completed
\* whose condition holds.
AtStatement(statement) ==
    \E k \in DOMAIN Statements :
        /\ Statements[k] = statement
        /\ Selected(statement)
        /\ \/ pc = "init" /\ \A j \in 1..(k - 1) : ~Selected(Statements[j])
           \/ \E i \in 1..(k - 1) :
                  /\ pc = Done(Statements[i])
                  /\ \A j \in (i + 1)..(k - 1) : ~Selected(Statements[j])

Finished(statement) ==
    /\ pc' = Done(statement)
    /\ trace' = Append(trace, statement)

\* The exit status when `raised` is raised in main()'s try block: both
\* handlers call sys.exit(1); anything else leaves asyncio.run and the
\* interpreter ends on it.
ExitOf_swallowing(raised) ==
    IF raised = "KeyboardInterrupt" THEN Some(1) ELSE Some(0)

ExitOf(raised) ==
    IF raised = "KeyboardInterrupt" THEN Some(1)
    ELSE IF raised \in {"RuntimeError", "ValueError", "OSError"} THEN Some(1)
    ELSE Some(130)

Raise(raised) ==
    /\ pc' = "exited"
    /\ exit_status' = ExitOf(raised)
    /\ trace' = Append(trace, raised)

\* The module level: install_dependencies, the imports, the log file. A
\* failure of the first two is sys.exit(1); a log file that cannot be opened
\* is an exception no handler covers.
Startup ==
    /\ pc = "boot"
    /\ \E outcome \in {"ready", "install_failed", "import_failed",
                       "log_unwritable"} :
           IF outcome = "ready"
           THEN pc' = "imported" /\ UNCHANGED <<exit_status, trace>>
           ELSE /\ pc' = "exited"
                /\ exit_status' = Some(1)
                /\ trace' = Append(trace, outcome)
    /\ UNCHANGED <<system, interfaces, wifi_networks, performance_data,
                   issues_detected, fixes_applied, observed, cmd, q,
                   callVars, args, printed>>

\* fixer = UltimateWiFiFixer()
Construct ==
    /\ pc = "imported"
    /\ IF is_mac \/ is_linux
       THEN pc' = "init" /\ UNCHANGED <<exit_status, trace>>
       ELSE Raise("RuntimeError")
    /\ UNCHANGED <<system, interfaces, wifi_networks, performance_data,
                   issues_detected, fixes_applied, observed, cmd, q,
                   callVars, args, printed>>

\* What the tools report in the runs of main() that are explored: one WiFi
\* interface; a scan of two networks, a scan with an SSID of two words, a
\* scan that fails; slow lookups; probes that all fail.
MainDetectEnvs ==
    IF is_mac
    THEN MacEnvs({[kind |-> "wifi", ifconfig |-> Ok(Some("192.168.1.5"))]},
                 {AirportInfo(Some(-85))}, {Failed}, {<<>>})
    ELSE LinuxEnvs({[type |-> "wifi", state |-> "connected",
                     show |-> ShowLines(Some("192.168.1.5")),
                     wifi_list |-> WifiListLines(40)]}, {})

MainScanEnvs ==
    ScanEnvs({MacChannelScan(1, 1),
              Ok(<<ScanHeader, <<Text("my")>> \o MacScanLine("cafe", 1, -60)>>),
              Failed},
             {NmcliChannelScan(1, 1)}, {Failed})

\* The commands of the fixes of a run all succeed or all fail.
MainFixEnvs == {AllEnding(Ok("")), AllEnding(Failed)}

TryLabels ==
    {"imported", "init", "detected", "scanned", "tested", "diagnosed", "fixed",
     "optimized"}

\* await fixer.detect_network_interfaces()
MainDetectIn(Envs) ==
    /\ AtStatement("detect")
    /\ \E env \in Envs :
           interfaces' = detect_network_interfaces(env)
    /\ Finished("detect")
    /\ UNCHANGED <<system, wifi_networks, performance_data, issues_detected,
                   fixes_applied, observed, cmd, q, callVars, args,
                   exit_status, printed>>

MainDetect == MainDetectIn(MainDetectEnvs)

\* await fixer.scan_wifi_networks(); what it raises reaches main()'s
\* handler.
MainScanIn(Envs) ==
    /\ AtStatement("scan")
    /\ \E env \in Envs :
         LET result == scan_wifi_networks(env) IN
           IF result.raised
           THEN Raise("ValueError") /\ UNCHANGED wifi_networks
           ELSE /\ wifi_networks' = result.networks
                /\ Finished("scan")
                /\ UNCHANGED exit_status
    /\ UNCHANGED <<system, interfaces, performance_data, issues_detected,
                   fixes_applied, observed, cmd, q, callVars, args, printed>>

MainScan == MainScanIn(MainScanEnvs)

\* await fixer.test_network_performance()
MainTestIn(Envs) ==
    /\ AtStatement("test")
    /\ \E env \in Envs :
           performance_data' = Some(test_network_performance(env))
    /\ Finished("test")
    /\ UNCHANGED <<system, interfaces, wifi_networks, issues_detected,
                   fixes_applied, observed, cmd, q, callVars, args,
                   exit_status, printed>>

MainTest == MainTestIn(RulesPerfEnvs)

\* await fixer.diagnose_issues()
MainDiagnoseIn(Envs) ==
    /\ AtStatement("diagnose")
    /\ \E env \in Envs :
           /\ issues_detected' = diagnose_issues(env)
           /\ observed' = Some(env)
    /\ Finished("diagnose")
    /\ UNCHANGED <<system, interfaces, wifi_networks, performance_data,
                   fixes_applied, cmd, q, callVars, args, exit_status, printed>>

MainDiagnose == MainDiagnoseIn(ReportDiagEnvs)

\* await fixer.apply_automatic_fixes()
MainFixIn(Envs) ==
    /\ AtStatement("fix")
    /\ \E env \in Envs :
           fixes_applied' = apply_automatic_fixes([i \in DOMAIN issues_detected |-> env])
    /\ Finished("fix")
    /\ UNCHANGED <<system, interfaces, wifi_networks, performance_data,
                   issues_detected, observed, cmd, q, callVars, args,
                   exit_status, printed>>

MainFix == MainFixIn(MainFixEnvs)

\* await fixer.optimize_network_performance(): the list it returns is
\* dropped, and it assigns no attribute of the object.
MainOptimize ==
    /\ AtStatement("optimize")
    /\ Finished("optimize")
    /\ UNCHANGED <<system, interfaces, wifi_networks, performance_data,
                   issues_detected, fixes_applied, observed, cmd, q, callVars,
                   args, exit_status, printed>>

\* The last statement: the JSON report to the file or to standard output,
\* or print_report(). open() on the path can raise.
MainReport ==
    /\ AtStatement("report")
    /\ IF args.report
       THEN \E timestamp \in Timestamps :
              LET report == generate_report(timestamp) IN
                IF args.output # None /\ args.output[1] # ""
                THEN \E opened \in BOOLEAN :
                       IF opened
                       THEN /\ printed' = "json_file"
                            /\ reports' = <<[at |-> pc, report |-> report]>>
                            /\ Finished("report")
                            /\ UNCHANGED exit_status
                       ELSE Raise("OSError") /\ UNCHANGED <<printed, reports>>
                ELSE /\ printed' = "json_stdout"
                     /\ reports' = <<[at |-> pc, report |-> report]>>
                     /\ Finished("report")
                     /\ UNCHANGED exit_status
       ELSE /\ printed' = "formatted"
            /\ Finished("report")
            /\ UNCHANGED <<exit_status, reports>>
    /\ UNCHANGED <<system, interfaces, wifi_networks, performance_data,
                   issues_detected, fixes_applied, observed, cmd, q,
                   vendor_call, fix_call, parse_call, dns_call, args>>

\* main() returns and asyncio.run with it; a cancellation requested while it
\* ran ends the run on KeyboardInterrupt instead.
MainReturn ==
    /\ pc = "reported"
    /\ pc' = "exited"
    /\ IF "sigint" \in Range(trace)
       THEN /\ exit_status' = ExitOf("CancelledError")
            /\ trace' = Append(trace, "CancelledError")
       ELSE /\ exit_status' = Some(0)
            /\ trace' = Append(trace, "return")
    /\ UNCHANGED <<system, interfaces, wifi_networks, performance_data,
                   issues_detected, fixes_applied, observed, cmd, q, callVars,
                   args, printed>>

\* Ctrl-C raised as KeyboardInterrupt inside the try block.
InterruptInTry ==
    /\ pc \in TryLabels
    /\ Raise("KeyboardInterrupt")
    /\ UNCHANGED <<system, interfaces, wifi_networks, performance_data,
                   issues_detected, fixes_applied, observed, cmd, q, callVars,
                   args, printed>>

\* Ctrl-C at the module level or after the try block: no handler.
InterruptOutsideTry ==
    /\ pc \in {"boot", "reported"}
    /\ pc' = "exited"
    /\ exit_status' = Some(130)
    /\ trace' = Append(trace, "KeyboardInterrupt")
    /\ UNCHANGED <<system, interfaces, wifi_networks, performance_data,
                   issues_detected, fixes_applied, observed, cmd, q, callVars,
                   args, printed>>

\* Ctrl-C taken by asyncio.run's handler, which cancels the task of main():
\* no await of main() suspends, so the statements go on to the end.
CancelRequested ==
    /\ pc \in TryLabels
    /\ "sigint" \notin Range(trace)
    /\ trace' = Append(trace, "sigint")
    /\ UNCHANGED <<system, interfaces, wifi_networks, performance_data,
                   issues_detected, fixes_applied, pc, observed, cmd, q,
                   callVars, args, exit_status, printed>>

NextMain ==
    \/ Startup
    \/ Construct
    \/ MainDetect
    \/ MainScan
    \/ MainTest
    \/ MainDiagnose
    \/ MainFix
    \/ MainOptimize
    \/ MainReport
    \/ MainReturn
    \/ InterruptInTry
    \/ InterruptOutsideTry
    \/ CancelRequested

SpecMain == InitMain /\ [][NextMain]_vars

-----------------------------------------------------------------------------
(* C16, C17, C18 *)

\* The statements of the run so far, without its other events.
Ran ==
    LET statement(event) == event \in Range(Statements)
    IN SelectSeq(trace, statement)

\* C16: the phases of one invocation happen one after the other in the
\* order detection, scan, test, diagnosis, fixes: detection is the first
\* phase of every run, no phase is followed by an earlier one or repeated,
\* fixes come only after the diagnosis of the run has completed, and the
\* diagnosis only after detection has completed.
C16_PhasesInOrder ==
    LET rank(phase) ==
            CASE phase = "detect" -> 1 [] phase = "scan" -> 2
              [] phase = "test" -> 3 [] phase = "diagnose" -> 4
              [] phase = "fix" -> 5 [] phase = "optimize" -> 6
              [] phase = "report" -> 7
    IN /\ Ran # <<>> => Ran[1] = "detect"
       /\ \A i, j \in DOMAIN Ran : i < j => rank(Ran[i]) < rank(Ran[j])
       /\ \A j \in DOMAIN Ran :
              /\ Ran[j] = "fix" => j > 1 /\ Ran[j - 1] = "diagnose"
              /\ Ran[j] = "diagnose" => \E i \in 1..(j - 1) : Ran[i] = "detect"
       /\ pc \in {"boot", "imported", "init"} => Ran = <<>>

\* A run with no flag, through all five phases to its end.
C16_Witness ==
    /\ pc = "exited"
    /\ exit_status = Some(0)
    /\ Ran = <<"detect", "scan", "test", "diagnose", "fix", "report">>
    /\ fixes_applied # <<>>

NoPhaseFlag ==
    ~(args.scan \/ args.speed_test \/ args.fix \/ args.optimize \/ args.report)

\* C17: in a run that has reached its report, the scan has run exactly when
\* --scan or no phase flag was given, the speed test exactly when
\* --speed-test or no phase flag was given, diagnosis and fixes exactly when
\* --fix or no phase flag was given, the optimizations exactly when
\* --optimize was given; with --report the JSON report went to the --output
\* file if a path was given and to standard output if not, and without
\* --report the formatted report was printed.
C17_PhaseSelection ==
    pc = "reported" =>
        /\ "scan" \in Range(Ran) <=> (args.scan \/ NoPhaseFlag)
        /\ "test" \in Range(Ran) <=> (args.speed_test \/ NoPhaseFlag)
        /\ "diagnose" \in Range(Ran) <=> (args.fix \/ NoPhaseFlag)
        /\ "fix" \in Range(Ran) <=> (args.fix \/ NoPhaseFlag)
        /\ "optimize" \in Range(Ran) <=> args.optimize
        /\ printed = (IF ~args.report THEN "formatted"
                      ELSE IF args.output \in {None, Some("")} THEN "json_stdout"
                      ELSE "json_file")
        /\ args.report => /\ Len(reports) = 1
                          /\ reports[1].report = generate_report(reports[1].report.timestamp)

\* --speed-test --optimize --report -o report.json: no scan, no fixes, the
\* report in the file.
C17_Witness ==
    /\ pc = "reported"
    /\ args = [NoArgs EXCEPT !.speed_test = TRUE, !.optimize = TRUE,
                             !.report = TRUE, !.output = Some("report.json")]
    /\ Ran = <<"detect", "test", "optimize", "report">>
    /\ printed = "json_file"

\* C18: a process that has ended has status 0 when main() returned with no
\* interruption, and a status other than 0 when it ended on an interruption
\* by the user, on an exception raised in main()'s try block (the
\* unsupported platform included), or at startup on a dependency that
\* cannot be installed or imported.
C18_ExitStatus ==
    pc = "exited" =>
        /\ exit_status # None
        /\ trace[Len(trace)] = "return" => exit_status = Some(0)
        /\ trace[Len(trace)] \in {"KeyboardInterrupt", "CancelledError",
                                  "RuntimeError", "ValueError", "OSError",
                                  "install_failed", "import_failed",
                                  "log_unwritable"}
               => exit_status[1] # 0
        /\ "sigint" \in Range(trace) => exit_status[1] # 0
        /\ exit_status = Some(0) => /\ trace[Len(trace)] = "return"
                                    /\ printed # "nothing"

\* A scan on macOS that raises ValueError ends the run with status 1.
C18_Witness ==
    /\ pc = "exited"
    /\ trace = <<"detect", "ValueError">>
    /\ exit_status = Some(1)

-----------------------------------------------------------------------------
(* C20 *)

\* C20: no run ends on an exception raised while the output of a command
\* that succeeded is parsed: a field that cannot be parsed is left unknown
\* and the phase goes on.
C20_ParseMissNeverFatal == "ValueError" \notin Range(trace)

-----------------------------------------------------------------------------
(* Runs of main() in which commands fail                                   *)

\* The command lines explored: every combination of the five phase flags,
\* the report on standard output or in a file.
DegradedArgSets ==
    {a \in ArgSets : ~a.verbose /\ a.output # Some("") /\ (a.output # None => a.report)}

InitDegraded ==
    /\ InitMain
    /\ args \in DegradedArgSets

\* The commands of detection fail, the listing of the interfaces included
\* or not.
DegradedDetectEnvs ==
    IF is_mac
    THEN MacEnvs({[kind |-> "wifi", ifconfig |-> Failed]},
                 {Failed, AirportInfo(Some(-85))}, {Failed}, {<<>>})
    ELSE LinuxEnvs({[type |-> "wifi", state |-> "connected", show |-> Failed,
                     wifi_list |-> Failed]},
                   {[exists |-> TRUE, ip_addr |-> Failed, iwconfig |-> Failed]})

\* `airport -s` fails; `nmcli device wifi list` succeeds, or fails and
\* `iwlist scan` fails after it.
DegradedScanEnvs ==
    ScanEnvs({Failed}, {NmcliChannelScan(1, 1)}, {Failed})

DegradedPerfEnvs ==
    PerfEnvs({Repeat(Lookup(FALSE, 5000), Len(test_domains)), UniformLookups(1500)},
             {NoPings}, {None})

DegradedDiagEnvs ==
    DiagEnvs({Repeat(0, Len(test_urls))}, {Failed}, {Failed}, {Failed}, {Failed})

DetectDegraded == MainDetectIn(DegradedDetectEnvs)

ScanDegraded == MainScanIn(DegradedScanEnvs)

TestDegraded == MainTestIn(DegradedPerfEnvs)

DiagnoseDegraded == MainDiagnoseIn(DegradedDiagEnvs)

FixDegraded == MainFixIn({AllEnding(Failed)})

\* A run that no interruption ends.
NextDegraded ==
    \/ Startup
    \/ Construct
    \/ DetectDegraded
    \/ ScanDegraded
    \/ TestDegraded
    \/ DiagnoseDegraded
    \/ FixDegraded
    \/ MainOptimize
    \/ MainReport
    \/ MainReturn

\* Every statement of main() terminates: each command has a timeout, and
\* no await suspends.
SpecDegraded == InitDegraded /\ [][NextDegraded]_vars /\ WF_vars(NextDegraded)

-----------------------------------------------------------------------------
(* C21 *)

\* C21: whichever commands fail, a constructed run reaches its report (or
\* the opening of the report file fails), and when it does every statement
\* selected by the flags has run.
C21_CommandFailuresDoNotStop ==
    /\ [](pc = "reported" =>
              \A k \in DOMAIN Statements :
                  Selected(Statements[k]) => Statements[k] \in Range(Ran))
    /\ (pc = "init") ~> \/ pc = "reported"
                        \/ pc = "exited" /\ trace[Len(trace)] = "OSError"

\* A run with no flag on macOS in which ifconfig, airport, the scan, the
\* pings, the speed test, the probes and the commands of the DNS fix all
\* fail: the fields are unknown and the report is printed.
C21_Witness ==
    /\ pc = "reported"
    /\ is_mac
    /\ Ran = <<"detect", "scan", "test", "diagnose", "fix", "report">>
    /\ Len(interfaces) = 1
    /\ interfaces[1].ip_address = None
    /\ interfaces[1].signal_strength = None
    /\ interfaces[1].channel = None
    /\ wifi_networks = <<>>
    /\ performance_data # None
    /\ performance_data[1].ping = 999
    /\ fixes_applied # <<>>
    /\ \A k \in DOMAIN fixes_applied : ~fixes_applied[k].success
    /\ printed = "formatted"

-----------------------------------------------------------------------------
(* The commands of a run, one call of run_command at a time                *)

\* asyncio.run(main()) creates one task; nothing in the source creates
\* another task or a thread.
Tasks == {"main"}

\* The calls of run_command a statement makes, in the order of the text, on
\* a host with one WiFi interface (nmcli present on Linux) where the
\* lookups succeed, no ping answers and the one fix with commands is the
\* DNS fix.
CommandsOf(statement) ==
    CASE statement = "detect" ->
             IF is_mac
             THEN <<"networksetup -listallhardwareports", "ifconfig",
                    "scutil --dns", "airport -I">>
             ELSE <<"which nmcli", "nmcli device", "nmcli device show",
                    "cat address", "nmcli device wifi list ifname">>
      [] statement = "scan" ->
             IF is_mac THEN <<"airport -s">> ELSE <<"nmcli device wifi list">>
      [] statement = "test" -> <<"dig", "dig", "dig", "ping", "ping", "ping">>
      [] statement = "diagnose" ->
             IF is_mac THEN <<"ps aux", "scutil --dns">>
             ELSE <<"systemctl is-active NetworkManager", "iwconfig">>
      [] statement = "fix" ->
             IF is_mac
             THEN <<"sudo dscacheutil -flushcache", "sudo killall -HUP mDNSResponder">>
             ELSE <<"sudo systemctl restart systemd-resolved">>
      [] statement = "optimize" ->
             IF is_mac
             THEN <<"sudo networksetup -setdnsservers",
                    "sudo networksetup -ordernetworkservices">>
             ELSE <<"sudo systemctl enable systemd-resolved", "sudo tee -a /etc/sysctl.conf">>
      [] OTHER -> <<>>

\* The events of a run other than its statements and its end: a command
\* name when run_command starts the child, "done" when subprocess.run
\* returns.
IsCommand(event) ==
    \E k \in DOMAIN Statements :
        LET of == CommandsOf(Statements[k])
        IN \E i \in DOMAIN of : of[i] = event

IsDone(event) == event = "done"

\* The commands that have started and not yet returned.
InFlight == Len(SelectSeq(trace, IsCommand)) - Len(SelectSeq(trace, IsDone))

\* The commands the statement in progress has started.
Issued ==
    LET ends == {i \in DOMAIN trace : trace[i] \in Range(Statements)}
        last == IF ends = {} THEN 0
                ELSE CHOOSE i \in ends : \A j \in ends : j <= i
    IN Len(SelectSeq(SubSeq(trace, last + 1, Len(trace)), IsCommand))

\* A child that is started and not awaited.
Blocked_never(task) == FALSE

\* subprocess.run returns when the child has ended: the task that called
\* run_command does nothing else until then.
Blocked(task) == InFlight > 0

StartCommand ==
    /\ \E task \in Tasks, k \in DOMAIN Statements :
           LET statement == Statements[k] IN
             /\ AtStatement(statement)
             /\ ~Blocked(task)
             /\ Issued < Len(CommandsOf(statement))
             /\ trace' = Append(trace, CommandsOf(statement)[Issued + 1])
    /\ UNCHANGED <<system, interfaces, wifi_networks, performance_data,
                   issues_detected, fixes_applied, pc, observed, cmd, q,
                   callVars, args, exit_status, printed>>

EndCommand ==
    /\ InFlight > 0
    /\ trace' = Append(trace, "done")
    /\ UNCHANGED <<system, interfaces, wifi_networks, performance_data,
                   issues_detected, fixes_applied, pc, observed, cmd, q,
                   callVars, args, exit_status, printed>>

\* The statement in progress has made its calls and the last has returned.
CommandsDone ==
    /\ InFlight = 0
    /\ \E k \in DOMAIN Statements :
           /\ AtStatement(Statements[k])
           /\ Issued = Len(CommandsOf(Statements[k]))

\* What the tools report on that host.
TaskDetectEnvs ==
    {env \in MainDetectEnvs :
         /\ Len(detect_network_interfaces(env)) = 1
         /\ is_linux => Success(Exec("which nmcli", env.which_nmcli))}

TaskScanEnvs ==
    {env \in ScanEnvs({MacChannelScan(1, 1)}, {NmcliChannelScan(1, 1)}, {Failed}) :
         is_linux => env.nmcli_scan # Failed}

TaskDiagEnvs ==
    DiagEnvs({Repeat(200, Len(test_urls))}, {Ok(<<5>>)},
             {Ok([resolver8 |-> FALSE, nameserver |-> FALSE])},
             {Ok("active")}, {Ok(FALSE)})

DetectTask == CommandsDone /\ MainDetectIn(TaskDetectEnvs)

ScanTask == CommandsDone /\ MainScanIn(TaskScanEnvs)

TestTask == CommandsDone /\ MainTestIn(RulesPerfEnvs)

DiagnoseTask == CommandsDone /\ MainDiagnoseIn(TaskDiagEnvs)

FixTask == CommandsDone /\ MainFixIn(MainFixEnvs)

OptimizeTask == CommandsDone /\ MainOptimize

NextTasks ==
    \/ Startup
    \/ Construct
    \/ StartCommand
    \/ EndCommand
    \/ DetectTask
    \/ ScanTask
    \/ TestTask
    \/ DiagnoseTask
    \/ FixTask
    \/ OptimizeTask
    \/ MainReport
    \/ MainReturn

SpecTasks == InitDegraded /\ [][NextTasks]_vars

-----------------------------------------------------------------------------
(* C22 *)

\* C22: at every point of a run at most one command has started and not
\* returned, and a step that changes interfaces, wifi_networks,
\* performance_data, issues_detected or fixes_applied is taken by the one
\* task of the run while no command is in flight.
C22_OneCommandInFlight ==
    /\ [](InFlight \in {0, 1})
    /\ [](Cardinality(Tasks) = 1)
    /\ [][<<interfaces, wifi_networks, performance_data, issues_detected,
            fixes_applied>>' # <<interfaces, wifi_networks, performance_data,
                                 issues_detected, fixes_applied>>
              => InFlight = 0 /\ InFlight' = 0]_vars

\* The second command of the DNS fix on macOS is in flight, after the
\* first has returned.
C22_Witness ==
    /\ is_mac
    /\ pc = "diagnosed"
    /\ InFlight = 1
    /\ Issued = 2
    /\ trace[Len(trace)] = "sudo killall -HUP mDNSResponder"

-----------------------------------------------------------------------------
(* C23 *)

\* C23: every interface record has type "WiFi" or "Ethernet" and status
\* "active", "inactive", "up" or "down".
C23_KindAndStatus ==
    \A i \in DOMAIN interfaces :
        /\ interfaces[i].type \in {"WiFi", "Ethernet"}
        /\ interfaces[i].status \in {"active", "inactive", "up", "down"}

-----------------------------------------------------------------------------
(* The path taken by detection and by the scan                             *)

\* The branch _detect_linux_interfaces takes: `which nmcli` decides, at
\* each call.
DetectPathOf(env) ==
    IF is_mac THEN "macos"
    ELSE IF Success(Exec("which nmcli", env.which_nmcli)) THEN "nmcli"
    ELSE "legacy"

\* The branch _scan_wifi_linux takes: `nmcli device wifi list` is tried,
\* and iwlist is the fallback when it fails.
ScanPathOf(env) ==
    IF is_mac THEN "macos"
    ELSE IF Success(Exec("nmcli device wifi list", env.nmcli_scan)) THEN "nmcli"
    ELSE "legacy"

\* detect_network_interfaces, with the path it took noted in the trace.
DetectPath ==
    /\ pc = "init"
    /\ \E env \in FixDetectEnvs :
           /\ interfaces' = detect_network_interfaces(env)
           /\ trace' = trace \o <<"detect", DetectPathOf(env)>>
    /\ pc' = "detected"
    /\ UNCHANGED <<system, wifi_networks, performance_data, issues_detected,
                   fixes_applied, observed, cmd, q, callVars, args,
                   exit_status, printed>>

\* The scans of the host that detection ran on: where `which nmcli` found
\* nothing, no nmcli command succeeds.
HostScanEnvs ==
    {env \in RulesScanEnvs :
         (is_linux /\ trace[2] = "legacy") => env.nmcli_scan = Failed}

\* scan_wifi_networks, with the path it took noted in the trace.
ScanPath ==
    /\ pc = "detected"
    /\ \E env \in HostScanEnvs :
         LET result == scan_wifi_networks(env) IN
           /\ IF result.raised
              THEN pc' = "fatal" /\ UNCHANGED wifi_networks
              ELSE pc' = "scanned" /\ wifi_networks' = result.networks
           /\ trace' = trace \o <<"scan", ScanPathOf(env)>>
    /\ UNCHANGED <<system, interfaces, performance_data, issues_detected,
                   fixes_applied, observed, cmd, q, callVars, args,
                   exit_status, printed>>

NextPaths == DetectPath \/ ScanPath

SpecPaths == Init /\ [][NextPaths]_vars

-----------------------------------------------------------------------------
(* C24 *)

\* C24: the calls of one process all take the same path: no run has one
\* call on the nmcli path and another on the legacy path.
C24_OnePathPerProcess == ~({"nmcli", "legacy"} \subseteq Range(trace))

-----------------------------------------------------------------------------
(* Detection on hosts whose tools list a DNS server twice                  *)

\* nmcli device show of a connection with the same server configured
\* twice: IP4.DNS[1] and IP4.DNS[2] carry one address.
ShowLinesRepeatingDns ==
    Ok(<< <<"IP4.ADDRESS", Some("192.168.1.5")>>, <<"IP4.GATEWAY", "192.168.1.1">>,
          <<"IP4.DNS", "1.1.1.1">>, <<"IP4.DNS", "1.1.1.1">> >>)

DnsDetectEnvs ==
    IF is_mac
    THEN MacEnvs(FixMacProfiles, {Failed},
                 {Ok(<<"8.8.8.8", "1.1.1.1", "8.8.8.8">>)},
                 {<<"8.8.8.8", "1.1.1.1">>, <<"1.1.1.1", "8.8.8.8">>})
    ELSE LinuxEnvs({[type |-> type, state |-> "connected", show |-> show,
                     wifi_list |-> Failed] :
                        type \in {"wifi", "ethernet"},
                        show \in {ShowLines(Some("192.168.1.5")),
                                  ShowLinesRepeatingDns}},
                   FixLegacyProfiles)

DetectDns == DetectNetworkInterfaces(DnsDetectEnvs)

NextDns == DetectDns

SpecDns == Init /\ [][NextDns]_vars

-----------------------------------------------------------------------------
(* C25 *)

\* C25: the DNS servers of every interface record are pairwise distinct.
C25_DnsServersDistinct ==
    \A i \in DOMAIN interfaces :
        \A j, k \in DOMAIN interfaces[i].dns_servers :
            j # k => interfaces[i].dns_servers[j] # interfaces[i].dns_servers[k]

-----------------------------------------------------------------------------
(* _parse_iwlist_scan on one cell                                          *)

\* What the searches of a cell can find: an ESSID (a network can be named
\* Hidden), a channel, a signal level (-100 dBm is a level iwlist prints),
\* an address, each present or not.
IwlistInputs ==
    [essid : {None, Some("cafe"), Some("Hidden"), Some("")},
     address : {None, Some("AA:BB:CC:DD:EE:01")},
     channel : {None, Some(1), Some(36)},
     signal : {None, Some(-100), Some(-60)},
     privacy_on : BOOLEAN, wpa2 : {TRUE}, wpa : {FALSE}]

ParseIwlistCell ==
    /\ \E cell \in IwlistInputs :
           parse_call' = [called |-> TRUE, cell |-> cell,
                          networks |-> _parse_iwlist_scan(<<cell>>)]
    /\ UNCHANGED <<system, interfaces, wifi_networks, performance_data,
                   issues_detected, fixes_applied, pc, observed, cmd, q,
                   vendor_call, fix_call, reports, dns_call, mainVars>>

NextCells == ParseIwlistCell

SpecCells == Init /\ [][NextCells]_vars

-----------------------------------------------------------------------------
(* C26 *)

\* C26: the value a scanned network holds for a field that was not found
\* in the tool's output is none of the values the field holds when it was
\* found: for the SSID, the channel and the signal strength of a cell, the
\* record of a cell without the field differs in that field from the record
\* of every cell with it.
C26_UnparsedDistinguishable ==
    parse_call.called =>
        LET network == parse_call.networks[1]
            parsed(field) ==
                {cell[field][1] : cell \in {c \in IwlistInputs : c[field] # None}}
        IN /\ parse_call.cell.essid = None => network.ssid \notin parsed("essid")
           /\ parse_call.cell.channel = None
                  => network.channel \notin parsed("channel")
           /\ parse_call.cell.signal = None
                  => network.signal_strength \notin parsed("signal")

-----------------------------------------------------------------------------
(* test_network_performance and its three DNS lookups                      *)

\* A lookup answers after 30, 300 or 1500 ms, or fails: at once (no
\* resolver configured) or when run_command's 5 s timeout expires.
ProbeOutcomes ==
    {Lookup(TRUE, elapsed) : elapsed \in {30, 300, 1500}}
        \cup {Lookup(FALSE, elapsed) : elapsed \in {10, 5000}}

DnsInputs == [DOMAIN test_domains -> ProbeOutcomes]

ProbePerformance ==
    /\ \E env \in PerfEnvs(DnsInputs, {NoPings}, {None}) :
           /\ performance_data' = Some(test_network_performance(env))
           /\ dns_call' = [called |-> TRUE, lookups |-> env.lookups]
    /\ pc' = "tested"
    /\ UNCHANGED <<system, interfaces, wifi_networks, issues_detected,
                   fixes_applied, observed, cmd, q,
                   vendor_call, fix_call, reports, parse_call, mainVars>>

NextProbe == ProbePerformance

SpecProbe == Init /\ [][NextProbe]_vars

-----------------------------------------------------------------------------
(* C27 *)

\* C27: the sample of a performance test has jitter 0 and packet loss 0,
\* and its DNS resolution time is not lower than that of any test whose
\* lookups are the same except that the ones which failed here succeed
\* slowly there (in more than a second).
C27_FailedProbesNotFaster ==
    dns_call.called =>
        LET sample == performance_data[1]
            failed(l) == l.outcome = Failed
            SucceedSlowly(slow) ==
                \A i \in DOMAIN test_domains :
                    IF failed(dns_call.lookups[i])
                    THEN ~failed(slow[i]) /\ slow[i].elapsed > 1000
                    ELSE slow[i] = dns_call.lookups[i]
        IN /\ sample.jitter = 0
           /\ sample.packet_loss = 0
           /\ \A slow \in DnsInputs :
                  SucceedSlowly(slow)
                      => sample.dns_resolution_time >= _test_dns_resolution(slow)

-----------------------------------------------------------------------------
(* The four passes called on one object in any order, any number of times  *)

MaxCalls == 3

PassDetectEnvs ==
    IF is_mac
    THEN MacEnvs({[kind |-> "wifi", ifconfig |-> Ok(Some("192.168.1.5"))]},
                 {AirportInfo(Some(-85))}, {Failed}, {<<>>})
    ELSE LinuxEnvs({[type |-> "wifi", state |-> "connected",
                     show |-> ShowLines(Some("192.168.1.5")),
                     wifi_list |-> WifiListLines(40)]}, {})

PassScanEnvs ==
    ScanEnvs({MacChannelScan(1, 0), MacChannelScan(1, 1), Failed},
             {NmcliChannelScan(1, 0), NmcliChannelScan(1, 1), Failed}, {Failed})

PassPerfEnvs ==
    PerfEnvs({UniformLookups(200), UniformLookups(1500)}, {NoPings}, {None})

\* A call is written to the trace with the number of records it produced.
Called(name, count) ==
    /\ Len(trace) < 2 * MaxCalls
    /\ trace' = trace \o <<name, count>>
    /\ UNCHANGED <<args, exit_status, printed>>

CallDetect ==
    /\ pc # "fatal"
    /\ \E env \in PassDetectEnvs :
         LET produced == detect_network_interfaces(env) IN
           /\ interfaces' = produced
           /\ Called("detect", Len(produced))
    /\ pc' = "detected"
    /\ UNCHANGED <<system, wifi_networks, performance_data, issues_detected,
                   fixes_applied, observed, cmd, q, callVars>>

\* An exception of the scan reaches the caller, who stops.
CallScan ==
    /\ pc # "fatal"
    /\ \E env \in PassScanEnvs :
         LET result == scan_wifi_networks(env) IN
           IF result.raised
           THEN /\ pc' = "fatal"
                /\ Called("scan raised", 0)
                /\ UNCHANGED wifi_networks
           ELSE /\ pc' = "scanned"
                /\ wifi_networks' = result.networks
                /\ Called("scan", Len(result.networks))
    /\ UNCHANGED <<system, interfaces, performance_data, issues_detected,
                   fixes_applied, observed, cmd, q, callVars>>

CallTest ==
    /\ pc # "fatal"
    /\ \E env \in PassPerfEnvs :
         LET produced == test_network_performance(env) IN
           /\ performance_data' = Some(produced)
           /\ Called("test", produced.dns_resolution_time)
    /\ pc' = "tested"
    /\ UNCHANGED <<system, interfaces, wifi_networks, issues_detected,
                   fixes_applied, observed, cmd, q, callVars>>

CallDiagnose ==
    /\ pc # "fatal"
    /\ \E env \in ReportDiagEnvs :
         LET produced == diagnose_issues(env) IN
           /\ issues_detected' = produced
           /\ observed' = Some(env)
           /\ Called("diagnose", Len(produced))
    /\ pc' = "diagnosed"
    /\ UNCHANGED <<system, interfaces, wifi_networks, performance_data,
                   fixes_applied, cmd, q, callVars>>

NextPasses == CallDetect \/ CallScan \/ CallTest \/ CallDiagnose

SpecPasses == Init /\ [][NextPasses]_vars

-----------------------------------------------------------------------------
(* C28 *)

\* The places of the trace that hold the name of a call.
Calls == {i \in DOMAIN trace : i % 2 = 1}

\* The number the trace holds for the last call of the pass `name`.
LastCount(name) ==
    LET at == {i \in Calls : trace[i] = name}
    IN trace[(CHOOSE i \in at : \A j \in at : j <= i) + 1]

HasCalled(name) == \E i \in Calls : trace[i] = name

\* C28: each pass replaces the result of the pass before it. A call of
\* detect, scan, test or diagnose leaves in its field one of the results a
\* single pass produces in the current state, whatever the field held, and
\* leaves the other three fields as they were; so each field holds the
\* records of its most recent pass, or its initial value if there was none.
C28_PhasesReplace ==
    /\ [][LET call == trace'[Len(trace') - 1] IN
          /\ call = "detect" =>
                /\ interfaces' \in {detect_network_interfaces(env) : env \in PassDetectEnvs}
                /\ UNCHANGED <<wifi_networks, performance_data, issues_detected>>
          /\ call = "scan" =>
                /\ wifi_networks' \in
                       IF is_mac
                       THEN {_scan_wifi_mac(env).networks : env \in PassScanEnvs}
                       ELSE {_scan_wifi_linux(env).networks : env \in PassScanEnvs}
                /\ UNCHANGED <<interfaces, performance_data, issues_detected>>
          /\ call = "test" =>
                /\ performance_data' \in {Some(test_network_performance(env)) : env \in PassPerfEnvs}
                /\ UNCHANGED <<interfaces, wifi_networks, issues_detected>>
          /\ call = "diagnose" =>
                /\ issues_detected' \in {diagnose_issues(env) : env \in ReportDiagEnvs}
                /\ UNCHANGED <<interfaces, wifi_networks, performance_data>>
         ]_vars
    /\ [](/\ Len(interfaces) = (IF HasCalled("detect") THEN LastCount("detect") ELSE 0)
          /\ Len(wifi_networks) = (IF HasCalled("scan") THEN LastCount("scan") ELSE 0)
          /\ performance_data = None <=> ~HasCalled("test")
          /\ HasCalled("test") => performance_data[1].dns_resolution_time = LastCount("test")
          /\ Len(issues_detected) = (IF HasCalled("diagnose") THEN LastCount("diagnose") ELSE 0))

\* A scan that saw two networks was followed by a scan that saw one, a test
\* with slow lookups by a test with fast ones, and one network and the fast
\* sample are what the object holds.
C28_Witness ==
    /\ \E i, j \in Calls :
           i < j /\ trace[i] = "scan" /\ trace[i + 1] = 2
                 /\ trace[j] = "scan" /\ trace[j + 1] = 1
    /\ Len(wifi_networks) = 1
    /\ Len(trace) = 2 * MaxCalls

-----------------------------------------------------------------------------
(* C29 *)

RECURSIVE Embeds(_, _)
\* `short` is `long` with some of its elements left out.
Embeds(short, long) ==
    IF short = <<>> THEN TRUE
    ELSE IF long = <<>> THEN FALSE
    ELSE IF Head(short) = Head(long) THEN Embeds(Tail(short), Tail(long))
    ELSE Embeds(short, Tail(long))

\* C29: in every state of a run the kinds of the fix results are the kinds
\* of detected issues, each issue used at most once, in the order of the
\* issues, so there are no more fix results than issues; and once the
\* remediation pass has run, there is a fix result for every detected issue
\* whose kind has a fix, whether or not the fixes before it succeeded.
C29_FixesFollowIssues ==
    LET kind(issue) == issue.type
        fixed(result) == result.issue
        mapped(issue) == issue.type \in MappedKinds
    IN /\ Len(fixes_applied) <= Len(issues_detected)
       /\ Embeds(Map(fixes_applied, fixed), Map(issues_detected, kind))
       /\ "fix" \in Range(Ran)
              => Map(fixes_applied, fixed)
                     = Map(SelectSeq(issues_detected, mapped), kind)

\* The pass has run on issues of which one has no fix, the first fix
\* failed, and the fixes of the issues after it are in the list.
C29_Witness ==
    /\ "fix" \in Range(Ran)
    /\ Len(fixes_applied) >= 3
    /\ Len(fixes_applied) < Len(issues_detected)
    /\ ~fixes_applied[1].success
    /\ fixes_applied[2].issue = fixes_applied[3].issue

====
